---- MODULE Spec2Model ----
(***************************************************************************)
(* Model of the dispatch engine of ultra/log (src/log/logger.go and        *)
(* src/log/option.go): construction through options, Log with its          *)
(* per-destination fan-out, the synchronous path writeLogLine, the         *)
(* asynchronous path writeLogLineAsync with its two goroutines and the     *)
(* shared deadline, the fallback path handleLogWriterError, and Flush      *)
(* (specification Spec); and of the formatting pipeline: the field         *)
(* processor of src/log/processor.go feeding the text and JSON formatters  *)
(* over an unbuffered channel (specification FmtSpec).                     *)
(***************************************************************************)
EXTENDS Integers, Sequences, FiniteSets, TLC

VARIABLES
    phase,          \* "run" | "panic" | "panicdata" | "fatal" | "overflow" | "capped"
    minLevel,       \* ultraLogger.minLevel
    destinations,   \* ultraLogger.destinations: writer -> formatter, "nil" or "absent"
    tag,            \* ultraLogger.tag
    silent,         \* ultraLogger.silent
    fallback,       \* ultraLogger.fallback
    async,          \* ultraLogger.async
    panicOnPanicLevel,  \* ultraLogger.panicOnPanicLevel
    flushWg,        \* ultraLogger.flushWg counter
    failing,        \* environment: the writers whose Write returns an error
    caller,         \* call stack of the goroutine that uses the logger
    units,          \* the goroutines started by Log in async mode
    writes,         \* per writer, the Write calls it received, in order
    rets,           \* history: the invocations of Log that returned
    handled,        \* history: the writers whose failure the fallback path handled
    flushSeen,      \* history: the units that existed when Flush last returned
    options,        \* history: the options the logger was constructed with
    nops            \* number of calls the caller has made on the logger

\* One call of FormatLogLine of a text or JSON formatter
VARIABLES
    fcase,          \* the formatter's fields and field formatters, the call's args and data
    proc,           \* fieldProcessor: position in processAllFields, matchedData
    chan,           \* resultChan: the result its sender is blocked on, if any
    cons,           \* the result FormatLogLine has received and not yet used
    acc,            \* FormatLogLine's line (text) and jsonMap (JSON)
    out,            \* the FormatResult, once FormatLogLine returned
    calls,          \* history: the field formatter invocations, in order
    sent            \* history: the results sent on resultChan, in order

\* One call of a constructor or of a function of the package
VARIABLES
    call,           \* the function called and its arguments
    reply           \* what it returned, once it returned

\* One call of writeLogLineAsync, with the goroutines it starts
VARIABLES
    ucase,          \* the formatter, the level and the data of the call
    ctx,            \* the context: its deadline elapsed, cancel was called
    ugo,            \* writeLogLineAsync: position, the select case it was woken by
    fgo,            \* formatLogLineAsync: position, its result, fmtChan
    wgo,            \* the write goroutine: position, its result, writeChan
    trail           \* history: phases of the unit, Write calls, what the unit did,
                    \* where it was when the deadline elapsed

dispatch == <<phase, minLevel, destinations, tag, silent, fallback, async,
              panicOnPanicLevel, flushWg,
              failing, caller, units, writes, rets, handled, flushSeen, options,
              nops>>

pipeline == <<fcase, proc, chan, cons, acc, out, calls, sent>>

library == <<call, reply>>

asyncUnit == <<ucase, ctx, ugo, fgo, wgo, trail>>

vars == <<dispatch, pipeline, library, asyncUnit>>

config == <<minLevel, tag, silent, fallback, async, panicOnPanicLevel>>
counts == <<options, nops>>

----------------------------------------------------------------------------
(* Levels *)

Debug == 0
Info  == 1
Warn  == 2
Error == 3
Panic == 4

AllLevels == <<Debug, Info, Warn, Error, Panic>>
Levels == {AllLevels[i] : i \in 1..Len(AllLevels)}

LevelString(l) ==
    CASE l = Debug -> "DEBUG"
      [] l = Info  -> "INFO"
      [] l = Warn  -> "WARN"
      [] l = Error -> "ERROR"
      [] l = Panic -> "PANIC"
      [] OTHER     -> "UNKNOWN"

----------------------------------------------------------------------------
(* Colorization (color_ansi.go, part_004, part_005:1-25,                    *)
(* formatter_colorized.go).  A []byte is a sequence with one element per    *)
(* byte (or per token, where the bytes of a token are of no interest).      *)

ESC == "ESC"      \* the byte \033
NUL == "NUL"      \* the zero byte make([]byte, n) fills a buffer with

ansiReset       == <<ESC, "[", "0", "m">>
ansiCSInit      == <<ESC, "[">>
ansiCSEnd       == "m"
ansiCSSeparator == ";"

\* A []byte value: nil, or a slice with the bytes b (possibly none).
NilBytes == [nil |-> TRUE, b |-> <<>>]
Bytes(b) == [nil |-> FALSE, b |-> b]

ColorAnsi(code, background, settings) ==
    [Code |-> code, Background |-> background, Settings |-> settings]

\* Colors, BackgroundColors and ColorSettings: the entries the model uses.
Green   == ColorAnsi(<<"3", "2">>, NilBytes, <<>>)
White   == ColorAnsi(<<"3", "7">>, NilBytes, <<>>)
Yellow  == ColorAnsi(<<"3", "3">>, NilBytes, <<>>)
Red     == ColorAnsi(<<"3", "1">>, NilBytes, <<>>)
Magenta == ColorAnsi(<<"3", "5">>, NilBytes, <<>>)
BackgroundRed == Bytes(<<"4", "1">>)
Bold   == <<"1">>
Italic == <<"3">>

SetBackground(ac, background) == [ac EXCEPT !.Background = background]

\* The bytes of the settings, each followed by the separator
\* (color_ansi.go:141-146).
RECURSIVE SettingsBytes(_)
SettingsBytes(settings) ==
    IF settings = <<>> THEN <<>>
    ELSE Head(settings) \o <<ansiCSSeparator>> \o SettingsBytes(Tail(settings))

\* totalBufferLength (color_ansi.go:169-180): the background counts when it
\* is not nil.
totalBufferLength(ac, content) ==
    Len(ansiCSInit) + Len(SettingsBytes(ac.Settings))
    + (IF ~ac.Background.nil THEN Len(ac.Background.b) + 1 ELSE 0)
    + Len(ac.Code) + 1 + Len(content) + Len(ansiReset)

\* Colorize (color_ansi.go:130-167): the buffer of totalBufferLength zero
\* bytes, the pieces copied into it from its start; the background is copied
\* when it is not empty.
Colorize(ac, content) ==
    IF Len(content) = 0 THEN content
    ELSE LET copied == ansiCSInit \o SettingsBytes(ac.Settings)
                       \o (IF Len(ac.Background.b) > 0
                           THEN ac.Background.b \o <<ansiCSSeparator>>
                           ELSE <<>>)
                       \o ac.Code \o <<ansiCSEnd>> \o content \o ansiReset
             total  == totalBufferLength(ac, content)
         IN  copied \o [i \in 1..(total - Len(copied)) |-> NUL]

\* A map[Level]Color: nil, or a map with the entries m.
NilColors == [nil |-> TRUE, m |-> <<>>]
ColorMap(m) == [nil |-> FALSE, m |-> m]

defaultLevelColors ==
    (Debug :> Green) @@ (Info :> White) @@ (Warn :> Yellow) @@ (Error :> Red)
    @@ (Panic :> Magenta)

\* NewColorizedFormatter (formatter_colorized.go:39-49): the default table
\* replaces a nil table; any other table is kept as it is.
NewColorizedFormatter(baseFormatter, levelColors) ==
    [kind |-> "ColorizedFormatter", BaseFormatter |-> baseFormatter,
     LevelColors |-> IF levelColors.nil THEN defaultLevelColors ELSE levelColors.m]

\* WithDefaultColorization and WithColorization (formatter.go:70-84).
WithDefaultColorization(f) == NewColorizedFormatter(f, NilColors)
WithColorization(f, colors) == NewColorizedFormatter(f, colors)

\* ColorizedFormatter.FormatLogLine (formatter_colorized.go:23-35), given
\* the FormatResult res of the base formatter.
ColorizedFormatLogLineMut(f, res, level) ==
    IF res.err # "none" THEN res
    ELSE IF level \notin DOMAIN f.LevelColors
    THEN [bytes |-> res.bytes, err |-> "none"]
    ELSE [bytes |-> Colorize(f.LevelColors[level], res.bytes), err |-> "none"]
ColorizedFormatLogLine(f, res, level) ==
    IF res.err # "none" THEN res
    ELSE IF level \notin DOMAIN f.LevelColors
    THEN [bytes |-> res.bytes, err |-> "ErrorMissingLevelColor"]
    ELSE [bytes |-> Colorize(f.LevelColors[level], res.bytes), err |-> "none"]

----------------------------------------------------------------------------
(* Bounds of the model *)

MaxOps   == 2     \* calls the caller makes on the logger (Log, setters, Flush)
MaxUnits == 5     \* goroutines started by Log over one run
MaxDepth == 6     \* frames on one goroutine's call stack

----------------------------------------------------------------------------
(* The collaborators of the engine: writers and formatters *)

Stdout == "stdout"
Writers == {Stdout, "w1", "w2"}

\* Formatter behaviours: two that render, one that always fails, one that
\* renders an empty line, one that never returns, and the text formatter
\* colorized with a table that has a color for the level Error only.
Formatters == {"text", "json", "err", "empty", "hang", "color"}

ErrorColors == ColorMap(Error :> Red)

\* The levels and data lists of the caller's Log calls (the level Panic is
\* logged through the method Panic), and the values its setter calls pass.
CallLevels == {Debug, Error}
DataLists  == {<<"b", "a">>}
SetLevels  == {Debug, Panic}
SetTags    == {"T"}

\* A data list as a Go []any: the items, wrapped `wrap` times in a
\* one-element []any (wrap = 0 is the list itself).
Plain(items) == [wrap |-> 0, items |-> items]
Wrapped(d)   == [wrap |-> d.wrap + 1, items |-> d.items]
Arity(d)     == IF d.wrap = 0 THEN Len(d.items) ELSE 1

RECURSIVE Brackets(_, _)
Brackets(n, s) == IF n = 0 THEN s ELSE <<"[">> \o Brackets(n - 1, s) \o <<"]">>

\* FormatLogLine of the formatter f: the rendered bytes as a sequence of
\* tokens, or an error, or no return at all.
BaseLine(f, args, data) ==
    <<f, LevelString(args.Level), args.Tag>> \o Brackets(data.wrap, data.items)

FormatLogLine(f, args, data) ==
    CASE f = "err"   -> [bytes |-> <<>>, err |-> TRUE,  returns |-> TRUE]
      [] f = "empty" -> [bytes |-> <<>>, err |-> FALSE, returns |-> TRUE]
      [] f = "hang"  -> [bytes |-> <<>>, err |-> FALSE, returns |-> FALSE]
      [] f = "color" ->
            LET res == ColorizedFormatLogLine(
                           WithColorization("text", ErrorColors),
                           [bytes |-> BaseLine("text", args, data), err |-> "none"],
                           args.Level)
            IN  [bytes |-> res.bytes, err |-> res.err # "none", returns |-> TRUE]
      [] OTHER       -> [bytes |-> BaseLine(f, args, data), err |-> FALSE, returns |-> TRUE]

\* write(w, b): the bytes handed to w.Write, and whether Write failed.
writeMut(w, b) == [bytes |-> b, ok |-> w \notin failing]
write(w, b) == [bytes |-> Append(b, "\n"), ok |-> w \notin failing]

FormatErrorMsg == Plain(<<"failed to format log line">>)
WriterErrorMsg == Plain(<<"error writing to original log writer">>)

----------------------------------------------------------------------------
(* Invocations of Log, call stacks, goroutines                              *)

Keys(dest)    == {w \in Writers : dest[w] # "absent"}
Enabled(dest) == {w \in Writers : dest[w] \in Formatters}

\* The writers that have returned an error, given the Write calls wrs.
FailedIn(wrs) == {w \in Writers : \E i \in 1..Len(wrs[w]) : ~wrs[w][i].ok}

\* One invocation of Log: the caller's call it stems from (root), the chain
\* of failures that led to it (path), the level and data of the invocation
\* it was made from (of), and what the logger's state was when it was
\* issued: dest, hd and wrs are destinations, handled and writes then.
Invocation(root, path, kind, level, data, of, dest, hd, wrs) ==
    [root |-> root, path |-> path, kind |-> kind, level |-> level, data |-> data,
     of |-> of, tag |-> tag, silentAt |-> silent, minAt |-> minLevel,
     enabledAt |-> Enabled(dest), handledAt |-> hd, failedAt |-> FailedIn(wrs)]

\* The invocation a goroutine makes from within the invocation inv, after
\* what happened at the destination w.
Child(inv, w, kind, level, data, dest, hd, wrs) ==
    Invocation(inv.root, inv.path \o <<w, kind>>, kind, level, data,
               [level |-> inv.level, data |-> inv.data], dest, hd, wrs)

\* A goroutine is a stack of frames, the last one on top.
\*   "Log"    the range loop of Log over l.destinations; todo = keys left
\*   "handle" handleLogWriterError after its l.Error call, before l.Log
\*   "unit"   writeLogLineAsync, blocked in one of its two selects
\*   "hung"   a synchronous FormatLogLine that never returns
\*   "Panic"  the method Panic, in its call of Log
Frame(k, inv, todo, w, stage, level, data) ==
    [k |-> k, inv |-> inv, todo |-> todo, started |-> {}, w |-> w, stage |-> stage,
     level |-> level, data |-> data]

Top(stk) == stk[Len(stk)]
Pop(stk) == SubSeq(stk, 1, Len(stk) - 1)
SetTop(stk, fr) == [stk EXCEPT ![Len(stk)] = fr]

\* A goroutine: a unit (an element of units), or the caller.  write is
\* "idle" before the unit's write goroutine is started, "pending" until it
\* has called w.Write, then "done".
Goroutine(inv, w, f, stk) ==
    [inv |-> inv, w |-> w, f |-> f, stack |-> stk, write |-> "idle", done |-> FALSE]

NoInvocation ==
    [root |-> 0, path |-> <<>>, kind |-> "none", level |-> Debug, data |-> Plain(<<>>),
     of |-> [level |-> Debug, data |-> Plain(<<>>)], tag |-> "", silentAt |-> FALSE,
     minAt |-> Debug, enabledAt |-> {}, handledAt |-> {}, failedAt |-> {}]

Caller == Goroutine(NoInvocation, "caller", "nil", caller)
IsCaller(t) == t.w = "caller"

\* A Log whose range loop has no key left returns to its caller.
RECURSIVE Unwind(_)
Unwind(stk) ==
    IF stk # <<>> /\ Top(stk).k = "Log" /\ Top(stk).todo = {}
    THEN Unwind(Pop(stk))
    ELSE stk

RECURSIVE Returned(_)
Returned(stk) ==
    IF stk # <<>> /\ Top(stk).k = "Log" /\ Top(stk).todo = {}
    THEN {[inv |-> Top(stk).inv, started |-> Top(stk).started]} \cup Returned(Pop(stk))
    ELSE {}

WgAdd(n, k) == n + k

WgDone(n) == n - 1

\* Goroutine t continues with the stack stk and the write-goroutine state wr
\* after starting the goroutines `spawned` (flushWg.Add(1) for each,
\* logger.go:155).  A unit whose stack is empty has returned from
\* writeLogLineAsync: defer l.flushWg.Done() (logger.go:157).
Commit(t, stk, spawned, wr) ==
    LET s   == Unwind(stk)
        fin == ~IsCaller(t) /\ s = <<>>
    IN  /\ caller' = IF IsCaller(t) THEN s ELSE caller
        /\ units' = (IF IsCaller(t) THEN units
                     ELSE (units \ {t}) \cup
                          {[t EXCEPT !.stack = s, !.done = fin, !.write = wr]})
                    \cup spawned
        /\ flushWg' = IF fin THEN WgDone(WgAdd(flushWg, Cardinality(spawned)))
                      ELSE WgAdd(flushWg, Cardinality(spawned))
        /\ rets' = rets \cup Returned(stk)

----------------------------------------------------------------------------
(* Log: the filter and the entry into the range loop (logger.go:139-147)    *)

FilteredMut(level) == level < minLevel
Filtered(level) == silent \/ level < minLevel

\* The stack of a goroutine after it called Log for the invocation inv.
Log(stk, inv, dest) ==
    Append(stk, Frame("Log", inv, IF Filtered(inv.level) THEN {} ELSE Keys(dest),
                      "none", "iter", inv.level, inv.data))

Overflows(stk, level) == ~Filtered(level) /\ Len(stk) >= MaxDepth

\* Goroutine t, whose stack is stk, calls Log.
CallLog(t, stk, inv, dest, wr) ==
    IF Overflows(stk, inv.level)
    THEN phase' = "overflow" /\ UNCHANGED <<caller, units, flushWg, rets>>
    ELSE phase' = phase /\ Commit(t, Log(stk, inv, dest), {}, wr)

----------------------------------------------------------------------------
(* Fallback (logger.go:214-231)                                             *)

DisableMut(dest, w) == dest
DisableRemoveMut(dest, w) == [dest EXCEPT ![w] = "absent"]
Disable(dest, w) == [dest EXCEPT ![w] = "nil"]

MustPanicMut(w) == ~fallback
MustPanic(w) == ~fallback \/ w = Stdout

\* The goroutine is in the range loop of a Log: it reads l.destinations
\* (logger.go:149).
Iterating(stk) == \E i \in DOMAIN stk : stk[i].k = "Log" /\ stk[i].todo # {}

\* The unit has a line whose write fails and a fallback that will assign to
\* l.destinations (logger.go:226).
Assigning(v) ==
    LET res == FormatLogLine(v.f, [Level |-> v.inv.level, Tag |-> v.inv.tag], v.inv.data)
    IN  /\ v.stack # <<>>
        /\ Top(v.stack).k = "unit"
        /\ res.returns /\ ~res.err /\ Len(res.bytes) > 0
        /\ v.w \in failing
        /\ ~MustPanic(v.w)

\* No lock guards l.destinations: the assignment of logger.go:226 made by
\* the goroutine t is concurrent with every other goroutine that ranges over
\* the map or assigns to it.
Races(t) ==
    \/ ~IsCaller(t) /\ Iterating(caller)
    \/ \E v \in units \ {t} : Iterating(v.stack) \/ Assigning(v)

\* handleLogWriterError(w, msgLevel, err, data...) called by goroutine t whose
\* stack is stk, for a write of the invocation inv: the panic, or the
\* disabling and the l.Error call.  The l.Log call that follows is
\* HandleRedeliver.  An assignment to the map that races with another
\* access either goes through or is caught by the Go runtime, which ends the
\* process ("fatal error: concurrent map iteration and map write",
\* "concurrent map writes").
handleLogWriterError(t, stk, w, msgLevel, data, inv, wr) ==
    IF MustPanic(w)
    THEN /\ phase' = "panic"
         /\ UNCHANGED <<destinations, handled, caller, units, flushWg, rets>>
    ELSE \/ /\ destinations' = Disable(destinations, w)
            /\ handled' = handled \cup {w}
            /\ CallLog(t, Append(stk, Frame("handle", inv, {}, w, "redeliver", msgLevel, data)),
                       Child(inv, w, "diag", Error, WriterErrorMsg, destinations', handled',
                             writes'),
                       destinations', wr)
         \/ /\ Races(t)
            /\ phase' = "fatal"
            /\ UNCHANGED <<destinations, handled, caller, units, flushWg, rets>>

\* The data handleLogWriterError receives from the two write paths.
PassSpread(data) == data
PassSlice(data) == Wrapped(data)

WriteRec(wr, inv) == [bytes |-> wr.bytes, ok |-> wr.ok, inv |-> inv]

----------------------------------------------------------------------------
(* The formatting pipeline: fields, field formatters, data                  *)

MaxFields == 2    \* fields of one formatter
MaxData   == 2    \* data items of one call

OutputFormatText == "text"
OutputFormatJSON == "json"

\* Values of type any: a Go string (its bytes as a sequence of tokens), an
\* int, the struct{}{} the processor passes when there is no datum, nil.
Str(s) == [t |-> "string", v |-> s]
Num(n) == [t |-> "int", v |-> <<n>>]
NoDatum == [t |-> "struct{}", v |-> <<>>]
Nil == [t |-> "nil", v |-> <<>>]

\* strconv of a small int.
IntText(n) == <<"0", "1", "2", "3", "4", "5", "6", "7", "8", "9">>[n + 1]

\* fmt.Sprintf("%v", value) (part_005:81).
Sprint(value) ==
    CASE value.t = "string"   -> value.v
      [] value.t = "int"      -> <<IntText(value.v[1])>>
      [] value.t = "struct{}" -> <<"{}">>
      [] OTHER                -> <<"<nil>">>

\* A field: Name() and Settings() (field.go:17-29).
Field(name, hideKey, alwaysMatch) ==
    [name |-> name, HideKey |-> hideKey, AlwaysMatch |-> alwaysMatch]

FieldNames == {"a", "b", "level", "message"}

\* The field names in the byte order json.Marshal writes map keys in.
KeyOrder == <<"a", "b", "level", "message">>

\* NewLevelField is a LineArgsField (field.go:148-153, 475-504),
\* NewMessageField an ObjectField[string] with WithHideKey(true)
\* (field.go:552-570).
LevelField   == Field("level", TRUE, TRUE)
MessageField == Field("message", TRUE, FALSE)

\* Field formatters: the one of a LineArgsField, which ignores the datum;
\* the one NewObjectField builds for the type T around the formatter
\* `inner`; the absent entry of the formatter map.
LineArgsFormatter == [kind |-> "lineargs", T |-> "any", inner |-> "level"]
ObjectFormatter(T, inner) == [kind |-> "object", T |-> T, inner |-> inner]
Missing == [kind |-> "missing", T |-> "none", inner |-> "none"]

\* What the formatter wrapped by NewObjectField does with a datum of its
\* type: return it, return nil, fail with ErrorNonFatalFormatterError, fail
\* with another error.
Inners == {"id", "nil", "nonfatal", "fatal"}
Types  == {"string", "int", "any"}

\* The result of one field formatter invocation: (any, error).
Result(val, err) == [val |-> val, err |-> err]

\* The formatter of NewLevelField (field.go:487-492): the level string,
\* wrapped in angle brackets for text output.
levelFormatterMut(args) == Result(Str(<<LevelString(args.Level)>>), "none")
levelFormatter(args) ==
    IF args.OutputFormat = OutputFormatText
    THEN Result(Str(<<"<", LevelString(args.Level), ">">>), "none")
    ELSE Result(Str(<<LevelString(args.Level)>>), "none")

\* The type assertion data.(T) of NewObjectField (field.go:100).
assertsMut(T, datum) == TRUE
asserts(T, datum) == T = "any" \/ datum.t = T

\* Calling the field formatter f (field.go:99-107, 138-140).
Invoke(f, args, datum) ==
    IF f.kind = "lineargs" THEN levelFormatter(args)
    ELSE IF ~asserts(f.T, datum) THEN Result(Nil, "invalid")
    ELSE CASE f.inner = "id"       -> Result(datum, "none")
           [] f.inner = "nil"      -> Result(Nil, "none")
           [] f.inner = "nonfatal" -> Result(Str(<<>>), "nonfatal")
           [] OTHER                -> Result(Nil, "fatal")

\* err.Error() of an ErrorNonFatalFormatterError (errors.go:111-113).
ErrorTextMut(name) == Str(<<>>)
ErrorText(name) == Str(<<"non-fatal error formatting field: ", name>>)

\* handleProcessorError (processor.go:117-130): the error is one the
\* processor goes on after.
handleProcessorErrorMut(err) == TRUE
handleProcessorError(err) == err \in {"nonfatal", "invalid"}

\* The invocation makes the processor send a result: a non-nil value
\* (processor.go:85-87, 109-112), or the text of a non-fatal error
\* (processor.go:123).
EmitsMut(r) == TRUE
Emits(r) == (r.err = "none" /\ r.val # Nil) \/ r.err = "nonfatal"

\* The invocation matched the datum (processor.go:109-110).
Matches(r) == r.err = "none" /\ r.val # Nil

markMatchedMut(matched, i) == matched
markMatched(matched, i) == [matched EXCEPT ![i] = TRUE]

\* fieldProcessingResult (processor.go:5-10, 132-145); fi and di tell which
\* field and which datum (0: none) it stems from.
sendResult(field, data, fi, di) ==
    [fieldName |-> field.name, fieldData |-> data,
     fieldSettings |-> [HideKey |-> field.HideKey, AlwaysMatch |-> field.AlwaysMatch],
     err |-> "none", fi |-> fi, di |-> di]

sendError(field, err, fi, di) ==
    [fieldName |-> field.name, fieldData |-> Nil,
     fieldSettings |-> [HideKey |-> FALSE, AlwaysMatch |-> FALSE],
     err |-> err, fi |-> fi, di |-> di]

\* addDataToLogLine (part_005:73-86)
addDataToLogLine(line, data, fName, fSettings) ==
    line \o (IF ~fSettings.HideKey THEN <<fName, "=">> ELSE <<>>) \o Sprint(data) \o <<" ">>

\* The line without its last byte (part_005:66-68).
trimLastMut(line) == line
trimLast(line) == IF Len(line) > 0 THEN SubSeq(line, 1, Len(line) - 1) ELSE line

\* jsonMap[result.fieldName] = result.fieldData (formatter_json.go:42)
Absent == [t |-> "absent", v |-> <<>>]
assignMut(m, k, v) == IF m[k] = Absent THEN [m EXCEPT ![k] = v] ELSE m
assign(m, k, v) == [m EXCEPT ![k] = v]

\* json.Marshal of a value and of the map (formatter_json.go:45).
MarshalValue(value) ==
    CASE value.t = "string"   -> <<"\"">> \o value.v \o <<"\"">>
      [] value.t = "int"      -> <<IntText(value.v[1])>>
      [] value.t = "struct{}" -> <<"{}">>
      [] OTHER                -> <<"null">>

RECURSIVE MarshalFrom(_, _, _)
MarshalFrom(m, i, first) ==
    IF i > Len(KeyOrder) THEN <<>>
    ELSE IF m[KeyOrder[i]] = Absent THEN MarshalFrom(m, i + 1, first)
    ELSE (IF first THEN <<>> ELSE <<",">>)
         \o <<"\"", KeyOrder[i], "\"", ":">> \o MarshalValue(m[KeyOrder[i]])
         \o MarshalFrom(m, i + 1, FALSE)

Marshal(m) == <<"{">> \o MarshalFrom(m, 1, TRUE) \o <<"}">>

\* The formatters, calls and data the pipeline is run on.
FieldSet ==
    {LevelField, MessageField, Field("a", FALSE, FALSE), Field("a", FALSE, TRUE),
     Field("b", FALSE, FALSE)}

RECURSIVE SeqsUpTo(_, _)
SeqsUpTo(S, n) ==
    IF n = 0 THEN {<<>>}
    ELSE SeqsUpTo(S, n - 1) \cup {Append(q, x) : q \in SeqsUpTo(S, n - 1), x \in S}

DefaultFormatters ==
    [n \in FieldNames |->
        CASE n = "level"   -> LineArgsFormatter
          [] n = "message" -> ObjectFormatter("string", "id")
          [] n = "a"       -> ObjectFormatter("string", "id")
          [] OTHER         -> ObjectFormatter("int", "id")]

FormatterMaps ==
    {[DefaultFormatters EXCEPT !["a"] = f] :
        f \in {Missing} \cup {ObjectFormatter(T, i) : T \in Types, i \in Inners}}

DataValues == {Str(<<"hi">>), Str(<<"yo">>), Num(7)}
FormatLevels == {Info, Panic}

Names(fields) == {fields[i].name : i \in 1..Len(fields)}

AllCases ==
    {[fields |-> fs, formatters |-> fm, data |-> d,
      args |-> [Level |-> l, OutputFormat |-> o]] :
        fs \in SeqsUpTo(FieldSet, MaxFields),
        fm \in FormatterMaps,
        d \in SeqsUpTo(DataValues, MaxData),
        l \in FormatLevels,
        o \in {OutputFormatText, OutputFormatJSON}}

\* The entry "a" of the formatter map varies when a field is named "a".
Cases == {c \in AllCases : "a" \notin Names(c.fields) => c.formatters = DefaultFormatters}

NoCase ==
    [fields |-> <<>>, formatters |-> DefaultFormatters, data |-> <<>>,
     args |-> [Level |-> Debug, OutputFormat |-> OutputFormatText]]

\* processFieldsWithData before processAllFields (processor.go:21-28), and
\* FormatLogLine before its loop (part_005:49-50, formatter_json.go:22-23).
NewProcessor(data) ==
    [pc |-> "field", fi |-> 1, di |-> 1, matchedData |-> [i \in 1..Len(data) |-> FALSE]]

NoFormatResult == [done |-> FALSE, bytes |-> <<>>, err |-> "none"]
FormatResult(bytes, err) == [done |-> TRUE, bytes |-> bytes, err |-> err]

StartPipeline(c) ==
    /\ fcase = c
    /\ proc = NewProcessor(c.data)
    /\ chan = <<>>
    /\ cons = <<>>
    /\ acc = [line |-> <<>>, jsonMap |-> [n \in FieldNames |-> Absent]]
    /\ out = NoFormatResult
    /\ calls = <<>>
    /\ sent = <<>>

\* No constructor or function of the package is under examination.
NoCall == [fn |-> "none", in |-> <<>>]
NoReply == [returned |-> FALSE, val |-> <<>>, err |-> "none"]
NoLibraryCall == call = NoCall /\ reply = NoReply

\* writeLogLineAsync before its first statement: the context is created by
\* context.WithTimeout (logger.go:258), no goroutine is started, the
\* channels (of capacity 1, logger.go:261, 282) are empty and open.
Chan == [buf |-> <<>>, closed |-> FALSE]
NewContext == [expired |-> FALSE, cancelled |-> FALSE]
NewAsyncUnit(c) ==
    /\ ucase = c
    /\ ctx = NewContext
    /\ ugo = [pc |-> "start", woken |-> "none", out |-> "none"]
    /\ fgo = [pc |-> "idle", res |-> <<>>, fmtChan |-> Chan, late |-> FALSE]
    /\ wgo = [pc |-> "idle", bytes |-> <<>>, res |-> TRUE, writeChan |-> Chan, late |-> FALSE]
    /\ trail = [phases |-> <<"Start">>, writes |-> <<>>, did |-> {}, at |-> "none"]

NoUnitCase == [f |-> "nil", w |-> "none", level |-> Debug, data |-> Plain(<<>>)]
NoAsyncUnit == NewAsyncUnit(NoUnitCase)

----------------------------------------------------------------------------
(* Construction: newUltraLogger, the options, NewLoggerWithOptions          *)

NoDestinations == [w \in Writers |-> "absent"]

\* newUltraLogger (logger.go:126-136)
newUltraLogger ==
    [minLevel |-> Info, destinations |-> NoDestinations, tag |-> "",
     silent |-> FALSE, fallback |-> TRUE, async |-> TRUE,
     panicOnPanicLevel |-> FALSE]

Opt(o, w, f, b, level, m) == [o |-> o, w |-> w, f |-> f, b |-> b, level |-> level, m |-> m]

OptMinLevel(level)   == Opt("WithMinLevel", "none", "nil", FALSE, level, NoDestinations)
OptSilent(b)         == Opt("WithSilent", "none", "nil", b, Debug, NoDestinations)
OptFallback(b)       == Opt("WithFallbackEnabled", "none", "nil", b, Debug, NoDestinations)
OptAsync(b)          == Opt("WithAsync", "none", "nil", b, Debug, NoDestinations)
OptPanicOnPanic(b)   == Opt("WithPanicOnPanicLevel", "none", "nil", b, Debug, NoDestinations)
OptDestination(w, f) == Opt("WithDestination", w, f, FALSE, Debug, NoDestinations)
OptDestinations(m)   == Opt("WithDestinations", "none", "nil", FALSE, Debug, m)
OptStdout(f)         == Opt("WithStdoutFormatter", Stdout, f, FALSE, Debug, NoDestinations)

\* WithDestination (option.go:55-63): the entry is added to the map.
WithDestinationMut(l, w, f) ==
    [l EXCEPT !.destinations = [x \in Writers |-> IF x = w THEN f ELSE "absent"]]
WithDestination(l, w, f) == [l EXCEPT !.destinations[w] = f]

\* WithDestinations (option.go:67-72): the map replaces the logger's map.
WithDestinations(l, m) == [l EXCEPT !.destinations = m]

\* WithStdoutFormatter (option.go:39-51), for a non-nil formatter.
WithStdoutFormatter(l, f) == [l EXCEPT !.destinations[Stdout] = f]

WithMinLevel(l, level)    == [l EXCEPT !.minLevel = level]
WithSilent(l, b)          == [l EXCEPT !.silent = b]
WithFallbackEnabled(l, b) == [l EXCEPT !.fallback = b]
WithAsync(l, b)           == [l EXCEPT !.async = b]

\* WithPanicOnPanicLevel (option.go:91-96)
WithPanicOnPanicLevel(l, b) == [l EXCEPT !.panicOnPanicLevel = b]

ApplyOption(l, opt) ==
    CASE opt.o = "WithMinLevel"        -> WithMinLevel(l, opt.level)
      [] opt.o = "WithSilent"          -> WithSilent(l, opt.b)
      [] opt.o = "WithFallbackEnabled" -> WithFallbackEnabled(l, opt.b)
      [] opt.o = "WithAsync"           -> WithAsync(l, opt.b)
      [] opt.o = "WithPanicOnPanicLevel" -> WithPanicOnPanicLevel(l, opt.b)
      [] opt.o = "WithDestination"     -> WithDestination(l, opt.w, opt.f)
      [] opt.o = "WithDestinations"    -> WithDestinations(l, opt.m)
      [] opt.o = "WithStdoutFormatter" -> WithStdoutFormatter(l, opt.f)

RECURSIVE ApplyOptions(_, _)
ApplyOptions(l, opts) ==
    IF opts = <<>> THEN l ELSE ApplyOptions(ApplyOption(l, Head(opts)), Tail(opts))

\* NewLoggerWithOptions (logger.go:57-72): the options in order, then the
\* default destination when none was registered.
NewLoggerWithOptions(opts) ==
    LET l == ApplyOptions(newUltraLogger, opts)
    IN  IF Keys(l.destinations) = {}
        THEN [l EXCEPT !.destinations = [NoDestinations EXCEPT ![Stdout] = "text"]]
        ELSE l

\* A logger as the program sets it up: the options it is constructed with
\* and the writers that return errors.
Setup(opts, F) == [opts |-> opts, failing |-> F]

AllThree == [w \in Writers |-> IF w = "w2" THEN "json" ELSE "text"]

\* Synchronous loggers.
DestinationOptions ==
    {<<>>,
     <<OptDestination("w1", "text"), OptDestination("w2", "json")>>,
     <<OptDestinations(AllThree)>>,
     <<OptStdout("text"), OptDestination("w1", "text")>>,
     <<OptDestination("w1", "hang"), OptDestination("w2", "json")>>,
     <<OptDestination("w1", "err"), OptDestination("w2", "json")>>,
     <<OptDestination("w1", "empty"), OptDestination("w2", "nil")>>}

ScalarOptions ==
    {<<OptAsync(FALSE)>>,
     <<OptAsync(FALSE), OptFallback(FALSE)>>,
     <<OptAsync(FALSE), OptMinLevel(Warn)>>,
     <<OptAsync(FALSE), OptSilent(TRUE)>>}

FailSets == {{}, {"w1"}, {"w1", "w2"}, {Stdout}}

SyncSetups ==
    {Setup(d \o o, F) : d \in DestinationOptions, o \in ScalarOptions, F \in FailSets}
    \cup {Setup(<<OptAsync(FALSE), OptPanicOnPanic(TRUE)>>, {}),
          Setup(<<OptDestination("w1", "text"), OptDestination("w2", "json"),
                  OptAsync(FALSE), OptPanicOnPanic(TRUE)>>, {"w1"}),
          Setup(<<OptDestination("w1", "color"), OptAsync(FALSE)>>, {}),
          Setup(<<OptDestination("w1", "color"), OptAsync(FALSE)>>, {"w1"})}

\* Asynchronous loggers (the default mode).
AsyncSetups ==
    {Setup(<<>>, {}),
     Setup(<<>>, {Stdout}),
     Setup(<<OptSilent(TRUE)>>, {}),
     Setup(<<OptPanicOnPanic(TRUE)>>, {}),
     Setup(<<OptDestination("w1", "text"), OptDestination("w2", "json"), OptPanicOnPanic(TRUE)>>,
           {"w1"}),
     Setup(<<OptDestination("w1", "text"), OptDestination("w2", "json")>>, {}),
     Setup(<<OptDestination("w1", "text"), OptDestination("w2", "json")>>, {"w1"}),
     Setup(<<OptDestination("w1", "text"), OptDestination("w2", "json"), OptFallback(FALSE)>>,
           {"w1"}),
     Setup(<<OptStdout("text"), OptDestination("w1", "text")>>, {Stdout}),
     Setup(<<OptDestination("w1", "hang"), OptDestination("w2", "json")>>, {}),
     Setup(<<OptDestination("w1", "err")>>, {}),
     Setup(<<OptDestination("w1", "color")>>, {}),
     Setup(<<OptDestination("w1", "empty"), OptDestination("w2", "nil")>>, {})}

Setups ==
    {s \in SyncSetups \cup AsyncSetups :
        s.failing \subseteq Keys(NewLoggerWithOptions(s.opts).destinations)}

Init ==
    /\ \E s \in Setups :
         LET l == NewLoggerWithOptions(s.opts)
         IN  /\ minLevel = l.minLevel
             /\ destinations = l.destinations
             /\ tag = l.tag
             /\ silent = l.silent
             /\ fallback = l.fallback
             /\ async = l.async
             /\ panicOnPanicLevel = l.panicOnPanicLevel
             /\ failing = s.failing
             /\ options = s.opts
    /\ phase = "run"
    /\ flushWg = 0
    /\ caller = <<>>
    /\ units = {}
    /\ writes = [w \in Writers |-> <<>>]
    /\ rets = {}
    /\ handled = {}
    /\ flushSeen = {}
    /\ nops = 0
    /\ StartPipeline(NoCase)
    /\ NoLibraryCall
    /\ NoAsyncUnit

----------------------------------------------------------------------------
(* The caller's operations                                                  *)

Idle == phase = "run" /\ caller = <<>>

\* Log(level, data...) and the level calls Debug, Info, Warn, Error.
CallerLog ==
    /\ Idle
    /\ nops < MaxOps
    /\ nops' = nops + 1
    /\ \E level \in CallLevels, items \in DataLists :
         CallLog(Caller, <<>>,
                 Invocation(nops + 1, <<>>, "call", level, Plain(items),
                            [level |-> level, data |-> Plain(items)],
                            destinations, handled, writes),
                 destinations, "idle")
    /\ UNCHANGED <<config, destinations, failing, writes, handled, flushSeen, options>>
    /\ UNCHANGED <<pipeline, library, asyncUnit>>

\* Panic(data...) up to its call of Log (logger.go:188-189).
CallerPanic ==
    /\ Idle
    /\ nops < MaxOps
    /\ nops' = nops + 1
    /\ \E items \in DataLists :
         LET inv == Invocation(nops + 1, <<>>, "Panic", Panic, Plain(items),
                               [level |-> Panic, data |-> Plain(items)],
                               destinations, handled, writes)
         IN  CallLog(Caller, <<Frame("Panic", inv, {}, "none", "log", Panic, Plain(items))>>,
                     inv, destinations, "idle")
    /\ UNCHANGED <<config, destinations, failing, writes, handled, flushSeen, options>>
    /\ UNCHANGED <<pipeline, library, asyncUnit>>

\* The test of Panic after Log returned (logger.go:191).
panicsAfterLogMut(flag) == TRUE
panicsAfterLog(flag) == flag

\* Panic after its Log returned (logger.go:191-193): panic(data), or return.
PanicReturn ==
    /\ phase = "run"
    /\ caller # <<>>
    /\ Top(caller).k = "Panic"
    /\ IF panicsAfterLog(panicOnPanicLevel)
       THEN phase' = "panicdata" /\ caller' = caller
       ELSE phase' = phase /\ caller' = Pop(caller)
    /\ UNCHANGED <<config, destinations, flushWg, failing, units, writes, rets, handled,
                   flushSeen, counts>>
    /\ UNCHANGED <<pipeline, library, asyncUnit>>

Setter ==
    /\ Idle
    /\ nops < MaxOps
    /\ nops' = nops + 1
    /\ UNCHANGED <<phase, destinations, flushWg, failing, caller, units, writes, rets,
                   handled, flushSeen, options>>
    /\ UNCHANGED <<pipeline, library, asyncUnit>>

SetMinLevel ==
    /\ Setter
    /\ \E level \in SetLevels : minLevel' = level
    /\ UNCHANGED <<tag, silent, fallback, async, panicOnPanicLevel>>

SetTag ==
    /\ Setter
    /\ \E tg \in SetTags : tag' = tg
    /\ UNCHANGED <<minLevel, silent, fallback, async, panicOnPanicLevel>>

Silence ==
    /\ Setter
    /\ \E b \in BOOLEAN : silent' = b
    /\ UNCHANGED <<minLevel, tag, fallback, async, panicOnPanicLevel>>

\* flushWg.Wait returns when the counter is zero.
WaitReturnsMut(n) == TRUE
WaitReturns(n) == n = 0

\* Flush (logger.go:208-210), at the moment it returns.
Flush ==
    /\ Idle
    /\ nops < MaxOps
    /\ WaitReturns(flushWg)
    /\ nops' = nops + 1
    /\ flushSeen' = {[inv |-> u.inv, w |-> u.w, done |-> u.done] : u \in units}
    /\ UNCHANGED <<phase, config, destinations, flushWg, failing, caller, units, writes,
                   rets, handled, options>>
    /\ UNCHANGED <<pipeline, library, asyncUnit>>

----------------------------------------------------------------------------
(* The range loop of Log (logger.go:149-164)                                *)

NewUnit(w, f, inv) ==
    Goroutine(inv, w, f, <<Frame("unit", inv, {}, w, "select", inv.level, inv.data)>>)

\* Async mode: flushWg.Add(1) and the go statement (logger.go:154-160).
StartUnit(t, base, w, f, fr) ==
    IF Cardinality(units) >= MaxUnits
    THEN /\ phase' = "capped"
         /\ UNCHANGED <<destinations, flushWg, caller, units, writes, rets, handled>>
    ELSE /\ Commit(t, base, {NewUnit(w, f, fr.inv)}, t.write)
         /\ UNCHANGED <<phase, destinations, writes, handled>>

\* Sync mode: writeLogLine (logger.go:233-249).
writeLogLineMut(t, base, w, f, fr) == StartUnit(t, base, w, f, fr)
writeLogLine(t, base, w, f, fr) ==
    LET r  == FormatLogLine(f, [Level |-> fr.inv.level, Tag |-> fr.inv.tag], fr.data)
        wr == write(w, r.bytes)
    IN  IF ~r.returns
        THEN /\ Commit(t, Append(base, Frame("hung", fr.inv, {}, w, "format", fr.level, fr.data)),
                       {}, t.write)
             /\ UNCHANGED <<phase, destinations, writes, handled>>
        ELSE IF r.err
        THEN /\ CallLog(t, base,
                        Child(fr.inv, w, "fmterr", Error, FormatErrorMsg, destinations, handled,
                              writes),
                        destinations, t.write)
             /\ UNCHANGED <<destinations, writes, handled>>
        ELSE /\ writes' = [writes EXCEPT ![w] = Append(@, WriteRec(wr, fr.inv))]
             /\ IF wr.ok
                THEN /\ Commit(t, base, {}, t.write)
                     /\ UNCHANGED <<phase, destinations, handled>>
                ELSE handleLogWriterError(t, base, w, fr.level, PassSpread(fr.data), fr.inv, t.write)

\* One iteration of the loop: the destination w, skipped when its formatter
\* is nil.  Go's map iteration order is unspecified.
LogIter(t) ==
    /\ phase = "run"
    /\ t.stack # <<>>
    /\ Top(t.stack).k = "Log"
    /\ \E w \in Top(t.stack).todo :
         LET fr   == Top(t.stack)
             f    == destinations[w]
             skip == SetTop(t.stack, [fr EXCEPT !.todo = @ \ {w}])
             base == SetTop(t.stack, [fr EXCEPT !.todo = @ \ {w}, !.started = @ \cup {w}])
         IN  IF f \notin Formatters
             THEN /\ Commit(t, skip, {}, t.write)
                  /\ UNCHANGED <<phase, destinations, writes, handled>>
             ELSE IF async
             THEN StartUnit(t, base, w, f, fr)
             ELSE writeLogLine(t, base, w, f, fr)
    /\ UNCHANGED <<config, failing, flushSeen, counts>>
    /\ UNCHANGED <<pipeline, library, asyncUnit>>

\* handleLogWriterError after l.Error returned: l.Log(msgLevel, data...)
\* (logger.go:230), after which the handler returns.
HandleRedeliver(t) ==
    /\ phase = "run"
    /\ t.stack # <<>>
    /\ Top(t.stack).k = "handle"
    /\ LET fr == Top(t.stack)
       IN  CallLog(t, Pop(t.stack),
                   Child(fr.inv, fr.w, "redeliver", fr.level, fr.data, destinations, handled,
                         writes),
                   destinations, t.write)
    /\ UNCHANGED <<config, destinations, failing, writes, handled, flushSeen, counts>>
    /\ UNCHANGED <<pipeline, library, asyncUnit>>

----------------------------------------------------------------------------
(* One asynchronous unit: writeLogLineAsync (logger.go:251-292) with its    *)
(* goroutines formatLogLineAsync and writeLogLineAsync (logger.go:294-323). *)
(* Formatting touches nothing the other goroutines see, so a unit takes one *)
(* step from its start to the outcome of its selects.                       *)

Running(u) ==
    /\ phase = "run"
    /\ u.stack # <<>>
    /\ Top(u.stack).k = "unit"

\* The LogLineArgs the unit was started with (logger.go:144-147, 158).
UnitArgsMut(u) == [Level |-> u.inv.level, Tag |-> tag]
UnitArgs(u) == [Level |-> u.inv.level, Tag |-> u.inv.tag]
UnitFormat(u) == FormatLogLine(u.f, UnitArgs(u), u.inv.data)

\* The unit has a line to write: the format goroutine sent bytes, no error.
HasLineMut(res) == TRUE
HasLine(res) == res.returns /\ ~res.err /\ Len(res.bytes) > 0

\* The deadline of the unit's context elapses and the select the unit is
\* blocked in takes the case <-ctx.Done(): in the first select
\* (logger.go:277) nothing is written; in the second (logger.go:289) the
\* write goroutine, which has not called w.Write yet, is left behind.
UnitDeadline(u) ==
    /\ Running(u)
    /\ \E second \in {b \in BOOLEAN : b => HasLine(UnitFormat(u))} :
         Commit(u, <<>>, {}, IF second THEN "pending" ELSE "idle")
    /\ UNCHANGED <<phase, config, destinations, failing, writes, handled, flushSeen, counts>>
    /\ UNCHANGED <<pipeline, library, asyncUnit>>

\* The first select takes a format result that ends the unit: an error,
\* reported with l.Error (logger.go:268-271), or an empty line
\* (logger.go:273-275).
UnitFormatResult(u) ==
    /\ Running(u)
    /\ LET res == UnitFormat(u)
       IN  /\ res.returns
           /\ ~HasLine(res)
           /\ IF res.err
              THEN CallLog(u, <<>>,
                           Child(u.inv, u.w, "fmterr", Error, FormatErrorMsg, destinations, handled,
                                 writes),
                           destinations, "idle")
              ELSE Commit(u, <<>>, {}, "idle") /\ UNCHANGED phase
    /\ UNCHANGED <<config, destinations, failing, writes, handled, flushSeen, counts>>
    /\ UNCHANGED <<pipeline, library, asyncUnit>>

\* The first select takes the line, the write goroutine calls write(w, b)
\* and the second select ends (logger.go:279-291, 318-322).  `seen` is FALSE
\* when the deadline elapsed after the write: the select takes ctx.Done()
\* and the result is not looked at.
UnitWriteResult(u) ==
    /\ Running(u)
    /\ HasLine(UnitFormat(u))
    /\ LET wr == write(u.w, UnitFormat(u).bytes)
       IN  /\ writes' = [writes EXCEPT ![u.w] = Append(@, WriteRec(wr, u.inv))]
           /\ \E seen \in BOOLEAN :
                IF seen /\ ~wr.ok
                THEN handleLogWriterError(u, <<>>, u.w, u.inv.level, PassSlice(u.inv.data),
                                          u.inv, "done")
                ELSE /\ Commit(u, <<>>, {}, "done")
                     /\ UNCHANGED <<phase, destinations, handled>>
    /\ UNCHANGED <<config, failing, flushSeen, counts>>
    /\ UNCHANGED <<pipeline, library, asyncUnit>>

\* A write goroutine left behind by its unit calls write(w, b); nobody
\* receives the result.
OrphanWrite(u) ==
    /\ phase = "run"
    /\ u.done
    /\ u.write = "pending"
    /\ LET wr == write(u.w, UnitFormat(u).bytes)
       IN  writes' = [writes EXCEPT ![u.w] = Append(@, WriteRec(wr, u.inv))]
    /\ units' = (units \ {u}) \cup {[u EXCEPT !.write = "done"]}
    /\ UNCHANGED <<phase, config, destinations, flushWg, failing, caller, rets, handled,
                   flushSeen, counts>>
    /\ UNCHANGED <<pipeline, library, asyncUnit>>

----------------------------------------------------------------------------

Next ==
    \/ CallerLog
    \/ CallerPanic
    \/ PanicReturn
    \/ SetMinLevel
    \/ SetTag
    \/ Silence
    \/ Flush
    \/ LogIter(Caller)
    \/ HandleRedeliver(Caller)
    \/ \E u \in units : LogIter(u)
    \/ \E u \in units : HandleRedeliver(u)
    \/ \E u \in units : UnitDeadline(u)
    \/ \E u \in units : UnitFormatResult(u)
    \/ \E u \in units : UnitWriteResult(u)
    \/ \E u \in units : OrphanWrite(u)

Spec == Init /\ [][Next]_vars

----------------------------------------------------------------------------
(* One call of FormatLogLine: the goroutine processFieldsWithData           *)
(* (processor.go:12-145) and the receive loop of the formatter              *)
(* (part_005:46-71, formatter_json.go:19-47) on the unbuffered channel.     *)

\* What the processor does with the outcome r of calling the formatter of
\* the field fi on the datum di (0: the struct{}{} of an AlwaysMatch field):
\* a fatal error is sent and ends processAllFields (processor.go:48-51);
\* otherwise the result, if any, is sent and the processor goes on as
\* `next`.
AfterInvokeMut(r, fi, di, next) ==
    LET field == fcase.fields[fi]
    IN  /\ chan' = IF r.err # "none" /\ ~handleProcessorError(r.err)
                   THEN <<sendError(field, r.err, fi, di)>>
                   ELSE IF Emits(r) THEN <<sendResult(field, r.val, fi, di)>>
                   ELSE <<>>
        /\ proc' = next
AfterInvoke(r, fi, di, next) ==
    LET field == fcase.fields[fi]
    IN  IF r.err # "none" /\ ~handleProcessorError(r.err)
        THEN /\ chan' = <<sendError(field, r.err, fi, di)>>
             /\ proc' = [proc EXCEPT !.pc = "return"]
        ELSE /\ chan' = IF Emits(r)
                        THEN <<sendResult(field,
                                          IF r.err = "nonfatal" THEN ErrorText(field.name)
                                          ELSE r.val,
                                          fi, di)>>
                        ELSE <<>>
             /\ proc' = next

Called(fi, di, datum) == [fi |-> fi, di |-> di, datum |-> datum]

\* processField (processor.go:55-66) with getFormatter and
\* processAlwaysMatchField (processor.go:68-89).
ProcessField ==
    /\ proc.pc = "field"
    /\ chan = <<>>
    /\ proc.fi <= Len(fcase.fields)
    /\ LET field == fcase.fields[proc.fi]
           f     == fcase.formatters[field.name]
       IN  IF f = Missing
           THEN /\ chan' = <<sendError(field, "init", proc.fi, 0)>>
                /\ proc' = [proc EXCEPT !.pc = "return"]
                /\ calls' = calls
           ELSE IF ~field.AlwaysMatch
           THEN /\ proc' = [proc EXCEPT !.pc = "scan", !.di = 1]
                /\ UNCHANGED <<chan, calls>>
           ELSE /\ calls' = Append(calls, Called(proc.fi, 0, NoDatum))
                /\ AfterInvoke(Invoke(f, fcase.args, NoDatum), proc.fi, 0,
                               [proc EXCEPT !.fi = @ + 1])
    /\ sent' = sent \o chan'
    /\ UNCHANGED <<fcase, cons, acc, out>>
    /\ UNCHANGED <<dispatch, library, asyncUnit>>

\* One iteration of the loop of processDataMatchingField (processor.go:91-115).
ScanDatum ==
    /\ proc.pc = "scan"
    /\ chan = <<>>
    /\ LET field == fcase.fields[proc.fi]
           f     == fcase.formatters[field.name]
           i     == proc.di
       IN  IF i > Len(fcase.data)
           THEN /\ proc' = [proc EXCEPT !.pc = "field", !.fi = @ + 1]
                /\ UNCHANGED <<chan, calls>>
           ELSE IF proc.matchedData[i]
           THEN /\ proc' = [proc EXCEPT !.di = @ + 1]
                /\ UNCHANGED <<chan, calls>>
           ELSE LET r == Invoke(f, fcase.args, fcase.data[i])
                IN  /\ calls' = Append(calls, Called(proc.fi, i, fcase.data[i]))
                    /\ AfterInvoke(r, proc.fi, i,
                                   [proc EXCEPT !.di = @ + 1,
                                                !.matchedData = IF Matches(r)
                                                                THEN markMatched(@, i)
                                                                ELSE @])
    /\ sent' = sent \o chan'
    /\ UNCHANGED <<fcase, cons, acc, out>>
    /\ UNCHANGED <<dispatch, library, asyncUnit>>

\* processFieldsWithData returns: defer close(resultChan) (processor.go:19).
CloseChan ==
    /\ \/ proc.pc = "return"
       \/ proc.pc = "field" /\ proc.fi > Len(fcase.fields)
    /\ chan = <<>>
    /\ proc' = [proc EXCEPT !.pc = "closed"]
    /\ UNCHANGED <<fcase, chan, cons, acc, out, calls, sent>>
    /\ UNCHANGED <<dispatch, library, asyncUnit>>

\* result, ok := <-procResChan with ok true (part_005:54,
\* formatter_json.go:33): the send and the receive meet.
Receive ==
    /\ chan # <<>>
    /\ cons = <<>>
    /\ ~out.done
    /\ cons' = chan
    /\ chan' = <<>>
    /\ UNCHANGED <<fcase, proc, acc, out, calls, sent>>
    /\ UNCHANGED <<dispatch, library, asyncUnit>>

\* The body of the receive loop (part_005:59-63, formatter_json.go:38-42).
UseResult ==
    /\ cons # <<>>
    /\ LET result == cons[1]
       IN  IF result.err # "none"
           THEN /\ out' = FormatResult(<<>>, result.err)
                /\ acc' = acc
           ELSE /\ out' = out
                /\ acc' = IF fcase.args.OutputFormat = OutputFormatText
                          THEN [acc EXCEPT !.line = addDataToLogLine(@, result.fieldData,
                                                                    result.fieldName,
                                                                    result.fieldSettings)]
                          ELSE [acc EXCEPT !.jsonMap = assign(@, result.fieldName,
                                                              result.fieldData)]
    /\ cons' = <<>>
    /\ UNCHANGED <<fcase, proc, chan, calls, sent>>
    /\ UNCHANGED <<dispatch, library, asyncUnit>>

\* The receive finds the channel closed and FormatLogLine returns
\* (part_005:55-57, 66-70, formatter_json.go:34-36, 45-46).
FormatReturn ==
    /\ proc.pc = "closed"
    /\ chan = <<>>
    /\ cons = <<>>
    /\ ~out.done
    /\ out' = IF fcase.args.OutputFormat = OutputFormatText
              THEN FormatResult(trimLast(acc.line), "none")
              ELSE FormatResult(Marshal(acc.jsonMap), "none")
    /\ UNCHANGED <<fcase, proc, chan, cons, acc, calls, sent>>
    /\ UNCHANGED <<dispatch, library, asyncUnit>>

\* The pipeline is run on its own, beside a logger no call is made on.
FmtInit ==
    /\ \E c \in Cases : StartPipeline(c)
    /\ LET l == NewLoggerWithOptions(<<>>)
       IN  /\ minLevel = l.minLevel
           /\ destinations = l.destinations
           /\ tag = l.tag
           /\ silent = l.silent
           /\ fallback = l.fallback
           /\ async = l.async
           /\ panicOnPanicLevel = l.panicOnPanicLevel
    /\ failing = {}
    /\ options = <<>>
    /\ phase = "run"
    /\ flushWg = 0
    /\ caller = <<>>
    /\ units = {}
    /\ writes = [w \in Writers |-> <<>>]
    /\ rets = {}
    /\ handled = {}
    /\ flushSeen = {}
    /\ nops = 0
    /\ NoLibraryCall
    /\ NoAsyncUnit

FmtNext ==
    \/ ProcessField
    \/ ScanDatum
    \/ CloseChan
    \/ Receive
    \/ UseResult
    \/ FormatReturn

FmtSpec == FmtInit /\ [][FmtNext]_vars

\* The two goroutines of the call are scheduled: a step that can be taken
\* is taken.
FmtFairSpec == FmtSpec /\ WF_vars(FmtNext)

----------------------------------------------------------------------------
(* Constructors and functions of the package, called on their own:         *)
(* Colorize, NewFormatter with its colorization options and the            *)
(* FormatLogLine of the formatter it built, NewObjectField, ParseLevel.     *)

\* strings.ToLower on the letters of the alphabet; a string is the sequence
\* of its characters.
UpperCase == <<"A", "B", "C", "D", "E", "F", "G", "H", "I", "J", "K", "L", "M",
               "N", "O", "P", "Q", "R", "S", "T", "U", "V", "W", "X", "Y", "Z">>
LowerCase == <<"a", "b", "c", "d", "e", "f", "g", "h", "i", "j", "k", "l", "m",
               "n", "o", "p", "q", "r", "s", "t", "u", "v", "w", "x", "y", "z">>

ToLowerChar(c) ==
    IF \E k \in DOMAIN UpperCase : UpperCase[k] = c
    THEN LowerCase[CHOOSE k \in DOMAIN UpperCase : UpperCase[k] = c]
    ELSE c
ToLower(s) == [i \in 1..Len(s) |-> ToLowerChar(s[i])]

\* Level.String (part_001:42-57), character by character.
LevelStringChars(l) ==
    CASE l = Debug -> <<"D", "E", "B", "U", "G">>
      [] l = Info  -> <<"I", "N", "F", "O">>
      [] l = Warn  -> <<"W", "A", "R", "N">>
      [] l = Error -> <<"E", "R", "R", "O", "R">>
      [] l = Panic -> <<"P", "A", "N", "I", "C">>
      [] OTHER     -> <<"U", "N", "K", "N", "O", "W", "N">>

\* ParseLevel (part_001:60-75).
ParseLevelOf(low, levelStr) ==
    CASE low = <<"d", "e", "b", "u", "g">> -> [val |-> Debug, err |-> "none"]
      [] low = <<"i", "n", "f", "o">>      -> [val |-> Info, err |-> "none"]
      [] low = <<"w", "a", "r", "n">>      -> [val |-> Warn, err |-> "none"]
      [] low = <<"e", "r", "r", "o", "r">> -> [val |-> Error, err |-> "none"]
      [] low = <<"p", "a", "n", "i", "c">> -> [val |-> Panic, err |-> "none"]
      [] OTHER -> [val |-> 0, err |-> "ErrorLevelParsing"]
ParseLevelMut(levelStr) == ParseLevelOf(levelStr, levelStr)
ParseLevel(levelStr) == ParseLevelOf(ToLower(levelStr), levelStr)

\* The spellings of s in every mix of upper and lower case.
Spellings(s) ==
    {[i \in 1..Len(s) |-> IF i \in S THEN ToLowerChar(s[i]) ELSE s[i]] :
        S \in SUBSET (1..Len(s))}

OtherLevel == 42      \* a Level that is none of the five (part_000:44)

ParseInputs ==
    UNION {Spellings(LevelStringChars(l)) : l \in Levels \cup {OtherLevel}}
    \cup {<<>>, <<"i", "n", "v", "a", "l", "i", "d">>, <<"d", "e", "b", "u">>,
          <<"d", "e", "b", "u", "g", "s">>, <<"w", "a", "r", "n", "i", "n", "g">>,
          <<" ", "i", "n", "f", "o">>, <<"0">>, <<"3">>}

\* Formatters as NewFormatter builds them (formatter.go:47-64): the two
\* base formatters, and nil.
BaseFormatter(kind, fields) == [kind |-> kind, Fields |-> fields]
NilFormatter == [kind |-> "nil", Fields |-> <<>>]

\* A FormatterOption applied to the formatter f.
FormatterOpt(o, colors) == [o |-> o, colors |-> colors]
ApplyFormatterOption(f, opt) ==
    IF opt.o = "WithDefaultColorization" THEN WithDefaultColorization(f)
    ELSE WithColorization(f, opt.colors)

RECURSIVE ApplyFormatterOptions(_, _)
ApplyFormatterOptions(f, opts) ==
    IF opts = <<>> THEN f
    ELSE ApplyFormatterOptions(ApplyFormatterOption(f, Head(opts)), Tail(opts))

NewFormatterMut(outputFormat, fields, opts) ==
    CASE outputFormat = OutputFormatJSON ->
            [f |-> ApplyFormatterOptions(BaseFormatter("JSONFormatter", fields), opts),
             err |-> "none"]
      [] OTHER ->
            [f |-> ApplyFormatterOptions(BaseFormatter("TextFormatter", fields), opts),
             err |-> "none"]
NewFormatter(outputFormat, fields, opts) ==
    CASE outputFormat = OutputFormatJSON ->
            [f |-> ApplyFormatterOptions(BaseFormatter("JSONFormatter", fields), opts),
             err |-> "none"]
      [] outputFormat = OutputFormatText ->
            [f |-> ApplyFormatterOptions(BaseFormatter("TextFormatter", fields), opts),
             err |-> "none"]
      [] OTHER -> [f |-> NilFormatter, err |-> "ErrorInvalidOutput"]

\* FormatLogLine of the formatter f, given the FormatResult res of its
\* innermost (text or JSON) formatter.
RECURSIVE FormatThrough(_, _, _)
FormatThrough(f, res, level) ==
    IF f.kind = "ColorizedFormatter"
    THEN ColorizedFormatLogLine(f, FormatThrough(f.BaseFormatter, res, level), level)
    ELSE res

\* NewObjectField (field.go:81-110).  A FieldOption sets one setting or
\* fails; the zero ObjectField has no name and a nil format function.
NilFunc == [kind |-> "nil", T |-> "none", inner |-> "none"]
FieldSettings(hideKey, alwaysMatch) == [HideKey |-> hideKey, AlwaysMatch |-> alwaysMatch]
ObjectField(name, settings, format) == [name |-> name, options |-> settings, format |-> format]
ZeroObjectField == ObjectField("", FieldSettings(FALSE, FALSE), NilFunc)

FieldOpt(o, b) == [o |-> o, b |-> b]
ApplyFieldOption(s, opt) ==
    CASE opt.o = "WithHideKey"     -> [s |-> [s EXCEPT !.HideKey = opt.b], err |-> "none"]
      [] opt.o = "WithAlwaysMatch" -> [s |-> [s EXCEPT !.AlwaysMatch = opt.b], err |-> "none"]
      [] OTHER                     -> [s |-> s, err |-> "option"]

RECURSIVE ApplyFieldOptions(_, _)
ApplyFieldOptions(s, opts) ==
    IF opts = <<>> THEN [s |-> s, err |-> "none"]
    ELSE LET r == ApplyFieldOption(s, Head(opts))
         IN  IF r.err # "none" THEN r ELSE ApplyFieldOptions(r.s, Tail(opts))

NewObjectFieldMut(T, name, formatter, opts) ==
    LET r == ApplyFieldOptions(FieldSettings(FALSE, FALSE), opts)
    IN  IF name = "" THEN [field |-> ZeroObjectField, err |-> "ErrorEmptyFieldName"]
        ELSE IF r.err # "none" THEN [field |-> ZeroObjectField, err |-> r.err]
        ELSE [field |-> ObjectField(name, r.s,
                                    IF formatter = "nil" THEN NilFunc
                                    ELSE ObjectFormatter(T, formatter)),
              err |-> "none"]
NewObjectField(T, name, formatter, opts) ==
    LET r == ApplyFieldOptions(FieldSettings(FALSE, FALSE), opts)
    IN  IF name = "" THEN [field |-> ZeroObjectField, err |-> "ErrorEmptyFieldName"]
        ELSE IF formatter = "nil" THEN [field |-> ZeroObjectField, err |-> "ErrorNilFormatter"]
        ELSE IF r.err # "none" THEN [field |-> ZeroObjectField, err |-> r.err]
        ELSE [field |-> ObjectField(name, r.s, ObjectFormatter(T, formatter)), err |-> "none"]

\* The calls examined.
ColorInputs ==
    {ColorAnsi(code, bg, st) :
        code \in {<<"3", "1">>, <<"3", "8", ";", "5", ";", "9">>},
        bg \in {NilBytes, Bytes(<<>>), BackgroundRed},
        st \in {<<>>, <<Bold>>, <<Bold, Italic>>}}
ContentInputs == {<<>>, <<"x">>, <<"t", "e", "s", "t">>}

ColorTables ==
    {NilColors, ColorMap(<<>>), ErrorColors, ColorMap(defaultLevelColors),
     ColorMap((Debug :> Red) @@ (Info :> SetBackground(Green, BackgroundRed)))}
FormatterOptLists ==
    {<<>>, <<FormatterOpt("WithDefaultColorization", NilColors)>>}
    \cup {<<FormatterOpt("WithColorization", c)>> : c \in ColorTables}
OutputFormats == {OutputFormatText, OutputFormatJSON, "xml", ""}
BaseResults ==
    {[bytes |-> <<"l", "i", "n", "e">>, err |-> "none"],
     [bytes |-> <<>>, err |-> "none"],
     [bytes |-> <<>>, err |-> "fatal"]}

FieldOpts ==
    {FieldOpt("WithHideKey", TRUE), FieldOpt("WithAlwaysMatch", TRUE),
     FieldOpt("WithHideKey", FALSE), FieldOpt("failing", FALSE)}
MaxOpts == 2      \* options passed to one NewObjectField call
FieldOptLists == SeqsUpTo(FieldOpts, MaxOpts)

\* A field as the formatters of formatter.go see it: whether its
\* NewFieldFormatter fails, and what its field formatter returns for the
\* data of the call: a FieldResult (Name, Data) and an error.
FieldOutcome(name, init, data, err) ==
    [name |-> name, init |-> init, data |-> data, err |-> err]

\* computeFieldResult (formatter.go:90-110): a pointer to the FieldResult,
\* nil for a field to throw away, or the error of NewFieldFormatter.  An
\* error of the field formatter other than ErrorInvalidFieldDataType is
\* dropped and the result is returned.
computeFieldResult(field) ==
    IF field.init THEN [nil |-> TRUE, Name |-> field.name, Data |-> Nil, err |-> "init"]
    ELSE IF field.err = "invalid"
    THEN [nil |-> TRUE, Name |-> field.name, Data |-> Nil, err |-> "none"]
    ELSE [nil |-> FALSE, Name |-> field.name, Data |-> field.data, err |-> "none"]

\* The token TextFormatter writes for a FieldResult whose Data is nil
\* (part_006:33-35).
NilPlaceholder == "<nil>"

\* TextFormatter.FormatLogLine (part_006:18-45), from the field i on.
RECURSIVE TextFormatterFrom(_, _, _)
TextFormatterFrom(fields, i, line) ==
    IF i > Len(fields) THEN [bytes |-> line, err |-> "none"]
    ELSE LET fieldResult == computeFieldResult(fields[i])
             resultBytes == IF fieldResult.Data = Nil THEN <<NilPlaceholder>>
                            ELSE Sprint(fieldResult.Data)
         IN  IF fieldResult.err # "none" THEN [bytes |-> <<>>, err |-> "init"]
             ELSE IF fieldResult.nil THEN TextFormatterFrom(fields, i + 1, line)
             ELSE IF i < Len(fields)
             THEN TextFormatterFrom(fields, i + 1, line \o resultBytes \o <<" ">>)
             ELSE TextFormatterFrom(fields, i + 1, line \o resultBytes)

TextFormatterFormatLogLine(fields) == TextFormatterFrom(fields, 1, <<>>)

\* The fields such a formatter is built with.
FieldOutcomes ==
    {FieldOutcome("a", FALSE, Str(<<"hi">>), "none"),
     FieldOutcome("b", FALSE, Nil, "none"),
     FieldOutcome("b", FALSE, Nil, "invalid"),
     FieldOutcome("b", FALSE, Nil, "other"),
     FieldOutcome("b", TRUE, Nil, "none")}

Call(fn, in) == [fn |-> fn, in |-> in]
Reply(val, err) == [returned |-> TRUE, val |-> val, err |-> err]

LibraryCalls ==
    {Call("Colorize", [ac |-> ac, content |-> content]) :
        ac \in ColorInputs, content \in ContentInputs}
    \cup {Call("NewFormatter", [outputFormat |-> o, fields |-> <<LevelField>>, opts |-> opts]) :
            o \in OutputFormats, opts \in FormatterOptLists}
    \cup {Call("NewObjectField", [T |-> "string", name |-> n, formatter |-> f, opts |-> opts]) :
            n \in {"", "a"}, f \in {"nil", "id"}, opts \in FieldOptLists}
    \cup {Call("ParseLevel", [levelStr |-> s]) : s \in ParseInputs}
    \cup {Call("TextFormatter.FormatLogLine", [fields |-> fs]) :
            fs \in SeqsUpTo(FieldOutcomes, MaxFields)}

Returns(fn) == call.fn = fn /\ reply.returned
Pending(fn) == call.fn = fn /\ ~reply.returned

CallColorize ==
    /\ Pending("Colorize")
    /\ reply' = Reply(Colorize(call.in.ac, call.in.content), "none")
    /\ UNCHANGED <<call, dispatch, pipeline, asyncUnit>>

CallNewFormatter ==
    /\ Pending("NewFormatter")
    /\ LET r == NewFormatter(call.in.outputFormat, call.in.fields, call.in.opts)
       IN  reply' = Reply(r.f, r.err)
    /\ UNCHANGED <<call, dispatch, pipeline, asyncUnit>>

\* A line is formatted with the formatter NewFormatter returned.
CallFormatLogLine ==
    /\ Returns("NewFormatter")
    /\ reply.err = "none"
    /\ \E level \in Levels, res \in BaseResults :
         /\ call' = Call("FormatLogLine",
                         [f |-> reply.val, level |-> level, base |-> res, of |-> call.in])
         /\ LET r == FormatThrough(reply.val, res, level)
            IN  reply' = Reply(r.bytes, r.err)
    /\ UNCHANGED <<dispatch, pipeline, asyncUnit>>

CallNewObjectField ==
    /\ Pending("NewObjectField")
    /\ LET r == NewObjectField(call.in.T, call.in.name, call.in.formatter, call.in.opts)
       IN  reply' = Reply(r.field, r.err)
    /\ UNCHANGED <<call, dispatch, pipeline, asyncUnit>>

CallParseLevel ==
    /\ Pending("ParseLevel")
    /\ LET r == ParseLevel(call.in.levelStr)
       IN  reply' = Reply(r.val, r.err)
    /\ UNCHANGED <<call, dispatch, pipeline, asyncUnit>>

CallTextFormatLogLine ==
    /\ Pending("TextFormatter.FormatLogLine")
    /\ LET r == TextFormatterFormatLogLine(call.in.fields)
       IN  reply' = Reply(r.bytes, r.err)
    /\ UNCHANGED <<call, dispatch, pipeline, asyncUnit>>

LibInit ==
    /\ \E c \in LibraryCalls : call = c
    /\ reply = NoReply
    /\ NoAsyncUnit
    /\ StartPipeline(NoCase)
    /\ LET l == NewLoggerWithOptions(<<>>)
       IN  /\ minLevel = l.minLevel
           /\ destinations = l.destinations
           /\ tag = l.tag
           /\ silent = l.silent
           /\ fallback = l.fallback
           /\ async = l.async
           /\ panicOnPanicLevel = l.panicOnPanicLevel
    /\ failing = {}
    /\ options = <<>>
    /\ phase = "run"
    /\ flushWg = 0
    /\ caller = <<>>
    /\ units = {}
    /\ writes = [w \in Writers |-> <<>>]
    /\ rets = {}
    /\ handled = {}
    /\ flushSeen = {}
    /\ nops = 0

LibNext ==
    \/ CallColorize
    \/ CallNewFormatter
    \/ CallFormatLogLine
    \/ CallNewObjectField
    \/ CallParseLevel
    \/ CallTextFormatLogLine

LibSpec == LibInit /\ [][LibNext]_vars

----------------------------------------------------------------------------
(* One call of writeLogLineAsync (logger.go:251-292) with the deadline of   *)
(* its context and its goroutines formatLogLineAsync (logger.go:294-308)    *)
(* and writeLogLineAsync (logger.go:310-323), statement by statement.  A    *)
(* select that finds several cases ready takes any of them; a goroutine     *)
(* blocked in a select takes the case that wakes it.                        *)

DoneReady == ctx.expired \/ ctx.cancelled
ChanReady(ch) == ch.buf # <<>> \/ ch.closed

Blocked(pc) == ugo.pc = pc /\ ugo.woken = "none"
Wake(pc, case) == IF Blocked(pc) THEN [ugo EXCEPT !.woken = case] ELSE ugo

\* The unit returns: defer cancel() (logger.go:259).
Return(outcome) ==
    /\ ugo' = [pc |-> "returned", woken |-> "none", out |-> outcome]
    /\ ctx' = [ctx EXCEPT !.cancelled = TRUE]

Phase(ps, did) ==
    [trail EXCEPT !.phases = @ \o ps, !.did = @ \cup did]

\* What handleLogWriterError does (logger.go:214-231).
Handling(w) ==
    IF MustPanic(w) THEN {"handleLogWriterError", "panic"}
    ELSE {"handleLogWriterError", "disable", "diagnostic", "redeliver"}

\* context.WithTimeout and go formatLogLineAsync (logger.go:258-262).
UnitStart ==
    /\ ugo.pc = "start"
    /\ ucase.f \in Formatters
    /\ ugo' = [ugo EXCEPT !.pc = "select1"]
    /\ fgo' = [fgo EXCEPT !.pc = "formatting"]
    /\ trail' = Phase(<<"Formatting">>, {})
    /\ UNCHANGED <<ucase, ctx, wgo>>
    /\ UNCHANGED <<dispatch, pipeline, library>>

\* The deadline of the context elapses: ctx.Done() is closed, which wakes
\* the unit if it is blocked in a select.
Expire ==
    /\ ugo.pc \notin {"start", "returned"}
    /\ ~ctx.expired
    /\ ctx' = [ctx EXCEPT !.expired = TRUE]
    /\ ugo' = IF Blocked("blocked1") THEN Wake("blocked1", "done")
              ELSE Wake("blocked2", "done")
    /\ trail' = [trail EXCEPT !.at = IF ugo.woken = "none" THEN ugo.pc ELSE "woken"]
    /\ UNCHANGED <<ucase, fgo, wgo>>
    /\ UNCHANGED <<dispatch, pipeline, library>>

\* The first select took `case` (logger.go:265-278): the format result,
\* which is the zero FormatResult when the channel is closed and empty, or
\* ctx.Done().  With a line to write, go writeLogLineAsync
\* (logger.go:282-283).
Take1(case) ==
    LET res == IF fgo.fmtChan.buf # <<>> THEN Head(fgo.fmtChan.buf)
               ELSE [bytes |-> <<>>, err |-> FALSE, returns |-> TRUE]
    IN  IF case = "done"
        THEN /\ Return("Dropped")
             /\ trail' = Phase(<<"Dropped">>, {})
             /\ UNCHANGED <<fgo, wgo>>
        ELSE /\ fgo' = [fgo EXCEPT !.fmtChan.buf = <<>>]
             /\ IF res.err
                THEN /\ Return("FormatError")
                     /\ trail' = Phase(<<"FormatError">>, {"l.Error"})
                     /\ UNCHANGED wgo
                ELSE IF Len(res.bytes) = 0
                THEN /\ Return("Dropped")
                     /\ trail' = Phase(<<"Dropped">>, {})
                     /\ UNCHANGED wgo
                ELSE /\ ugo' = [ugo EXCEPT !.pc = "select2", !.woken = "none"]
                     /\ wgo' = [wgo EXCEPT !.pc = "writing", !.bytes = res.bytes]
                     /\ trail' = Phase(<<"Ready", "Writing">>, {"go write"})
                     /\ UNCHANGED ctx

\* The second select took `case` (logger.go:285-291).
Take2(case) ==
    LET ok == IF wgo.writeChan.buf # <<>> THEN Head(wgo.writeChan.buf) ELSE TRUE
    IN  IF case = "done"
        THEN /\ Return("Dropped")
             /\ trail' = Phase(<<"Dropped">>, {})
             /\ UNCHANGED <<fgo, wgo>>
        ELSE /\ wgo' = [wgo EXCEPT !.writeChan.buf = <<>>]
             /\ IF ok
                THEN Return("Done") /\ trail' = Phase(<<"Done">>, {})
                ELSE Return("WriteError") /\ trail' = Phase(<<"WriteError">>, Handling(ucase.w))
             /\ UNCHANGED fgo

\* The unit reaches a select: it takes one of the cases that are ready, or
\* blocks.
UnitSelect ==
    /\ ugo.pc \in {"select1", "select2"}
    /\ LET ch    == IF ugo.pc = "select1" THEN fgo.fmtChan ELSE wgo.writeChan
           ready == {c \in {"chan"} : ChanReady(ch)} \cup {c \in {"done"} : DoneReady}
       IN  IF ready = {}
           THEN /\ ugo' = [ugo EXCEPT !.pc = IF ugo.pc = "select1" THEN "blocked1"
                                             ELSE "blocked2"]
                /\ UNCHANGED <<ctx, fgo, wgo, trail>>
           ELSE \E c \in ready : IF ugo.pc = "select1" THEN Take1(c) ELSE Take2(c)
    /\ UNCHANGED ucase
    /\ UNCHANGED <<dispatch, pipeline, library>>

\* The unit, woken in a select, goes on with the case that woke it.
UnitWoken ==
    /\ ugo.pc \in {"blocked1", "blocked2"}
    /\ ugo.woken # "none"
    /\ IF ugo.pc = "blocked1" THEN Take1(ugo.woken) ELSE Take2(ugo.woken)
    /\ UNCHANGED ucase
    /\ UNCHANGED <<dispatch, pipeline, library>>

\* formatLogLineAsync evaluates formatter.FormatLogLine(args, data), the
\* operand of its send (logger.go:306); a formatter that hangs never gets
\* here.
FormatDone ==
    /\ fgo.pc = "formatting"
    /\ LET res == FormatLogLine(ucase.f, [Level |-> ucase.level, Tag |-> tag], ucase.data)
       IN  /\ res.returns
           /\ fgo' = [fgo EXCEPT !.pc = "select", !.res = res]
    /\ UNCHANGED <<ucase, ctx, ugo, wgo, trail>>
    /\ UNCHANGED <<dispatch, pipeline, library>>

\* Its select sends the result, which the capacity of the channel always
\* allows (logger.go:306), and the deferred close follows.
FormatSend ==
    /\ fgo.pc = "select"
    /\ fgo' = [fgo EXCEPT !.pc = "exit", !.late = ctx.expired,
                          !.fmtChan = [buf |-> <<fgo.res>>, closed |-> TRUE]]
    /\ ugo' = Wake("blocked1", "chan")
    /\ UNCHANGED <<ucase, ctx, wgo, trail>>
    /\ UNCHANGED <<dispatch, pipeline, library>>

\* Its select takes ctx.Done() (logger.go:304-305): the channel is closed
\* without a result.
FormatAbandon ==
    /\ fgo.pc = "select"
    /\ DoneReady
    /\ fgo' = [fgo EXCEPT !.pc = "exit", !.fmtChan.closed = TRUE]
    /\ ugo' = Wake("blocked1", "chan")
    /\ UNCHANGED <<ucase, ctx, wgo, trail>>
    /\ UNCHANGED <<dispatch, pipeline, library>>

\* The write goroutine evaluates write(w, b), the operand of its send
\* (logger.go:321).
WriteDone ==
    /\ wgo.pc = "writing"
    /\ LET wr == write(ucase.w, wgo.bytes)
       IN  /\ wgo' = [wgo EXCEPT !.pc = "select", !.res = wr.ok]
           /\ trail' = [trail EXCEPT !.writes =
                           Append(@, [bytes |-> wr.bytes, ok |-> wr.ok,
                                      expired |-> ctx.expired, returned |-> ugo.pc = "returned"])]
    /\ UNCHANGED <<ucase, ctx, ugo, fgo>>
    /\ UNCHANGED <<dispatch, pipeline, library>>

WriteSend ==
    /\ wgo.pc = "select"
    /\ wgo' = [wgo EXCEPT !.pc = "exit", !.late = ctx.expired,
                          !.writeChan = [buf |-> <<wgo.res>>, closed |-> TRUE]]
    /\ ugo' = Wake("blocked2", "chan")
    /\ UNCHANGED <<ucase, ctx, fgo, trail>>
    /\ UNCHANGED <<dispatch, pipeline, library>>

WriteAbandon ==
    /\ wgo.pc = "select"
    /\ DoneReady
    /\ wgo' = [wgo EXCEPT !.pc = "exit", !.writeChan.closed = TRUE]
    /\ ugo' = Wake("blocked2", "chan")
    /\ UNCHANGED <<ucase, ctx, fgo, trail>>
    /\ UNCHANGED <<dispatch, pipeline, library>>

\* The units examined: one destination w1 beside standard output, its
\* formatter, the level of the line, the writer failing or not, fallback on
\* or off.
UnitFormatters == {"text", "err", "empty", "hang", "color"}
UnitCase(f, level) == [f |-> f, w |-> "w1", level |-> level, data |-> Plain(<<"b", "a">>)]

UnitInit ==
    /\ \E f \in UnitFormatters, level \in CallLevels : NewAsyncUnit(UnitCase(f, level))
    /\ \E fb \in BOOLEAN :
         LET l == NewLoggerWithOptions(<<OptDestination("w1", ucase.f), OptFallback(fb)>>)
         IN  /\ minLevel = l.minLevel
             /\ destinations = l.destinations
             /\ tag = l.tag
             /\ silent = l.silent
             /\ fallback = l.fallback
             /\ async = l.async
             /\ panicOnPanicLevel = l.panicOnPanicLevel
             /\ options = <<OptDestination("w1", ucase.f), OptFallback(fb)>>
    /\ failing \in {{}, {"w1"}}
    /\ phase = "run"
    /\ flushWg = 0
    /\ caller = <<>>
    /\ units = {}
    /\ writes = [w \in Writers |-> <<>>]
    /\ rets = {}
    /\ handled = {}
    /\ flushSeen = {}
    /\ nops = 0
    /\ StartPipeline(NoCase)
    /\ NoLibraryCall

UnitNext ==
    \/ UnitStart
    \/ Expire
    \/ UnitSelect
    \/ UnitWoken
    \/ FormatDone
    \/ FormatSend
    \/ FormatAbandon
    \/ WriteDone
    \/ WriteSend
    \/ WriteAbandon

UnitSpec == UnitInit /\ [][UnitNext]_vars

----------------------------------------------------------------------------
(* What the claims are stated over                                          *)

\* The Write calls the writer w received for the invocation inv.
WritesOf(inv, w) == {i \in 1..Len(writes[w]) : writes[w][i].inv = inv}

FramesOf(stk) == {stk[i].inv : i \in 1..Len(stk)}

\* Every invocation of Log made so far that passed the filter or returned.
AllInvocations ==
    {u.inv : u \in units} \cup {r.inv : r \in rets} \cup FramesOf(caller)
    \cup UNION {FramesOf(u.stack) : u \in units}
    \cup UNION {{writes[w][i].inv : i \in 1..Len(writes[w])} : w \in Writers}

\* The invocation passed the filter of Log when it was issued.
Passed(inv) == ~inv.silentAt /\ inv.level >= inv.minAt

\* The invocation i was made while handling what happened for inv at w.
Via(inv, w, i) ==
    /\ i.root = inv.root
    /\ Len(i.path) >= Len(inv.path) + 2
    /\ SubSeq(i.path, 1, Len(inv.path)) = inv.path
    /\ i.path[Len(inv.path) + 1] = w

\* The formatter the construction options register for the writer w, read
\* off the option list: the last option that names w, among the options
\* from the last WithDestinations on; the default destination otherwise.
LastMap ==
    LET M == {i \in DOMAIN options : options[i].o = "WithDestinations"}
    IN  IF M = {} THEN 0 ELSE CHOOSE i \in M : \A j \in M : j <= i

Naming(w) ==
    {i \in DOMAIN options :
        /\ i >= LastMap
        /\ \/ options[i].o \in {"WithDestination", "WithStdoutFormatter"} /\ options[i].w = w
           \/ options[i].o = "WithDestinations" /\ options[i].m[w] # "absent"}

Registered(w) ==
    IF Naming(w) # {}
    THEN LET i == CHOOSE i \in Naming(w) : \A j \in Naming(w) : j <= i
         IN  IF options[i].o = "WithDestinations" THEN options[i].m[w] ELSE options[i].f
    ELSE IF w = Stdout /\ \A x \in Writers : Naming(x) = {} THEN "text" ELSE "absent"

----------------------------------------------------------------------------
(* The claims                                                               *)

C2_OneUnitPerEnabledDestination ==
    async =>
        \A r \in rets :
            Passed(r.inv) =>
                /\ r.started = r.inv.enabledAt
                /\ \A w \in r.started : \E u \in units : u.inv = r.inv /\ u.w = w

\* C3: when Flush returns in async mode, every unit started before, those of
\* the fallback path included, has finished.
C3_FlushWaitsForUnits ==
    /\ \A s \in flushSeen : s.done
    /\ flushWg = Cardinality({u \in units : ~u.done})

\* Flush returned after a unit started by the redelivery of a failed line.
C3_Witness ==
    /\ async
    /\ \E s \in flushSeen : s.inv.kind = "redeliver"

C5_HandledDestinationGetsNoLaterWrite ==
    /\ \A w \in handled : destinations[w] = "nil"
    /\ \A w \in Writers : \A i \in 1..Len(writes[w]) : w \notin writes[w][i].inv.handledAt
    /\ \A u \in units : u.w \notin u.inv.handledAt
    /\ \A r \in rets : r.started \cap r.inv.handledAt = {}
    /\ (~async /\ fallback /\ phase = "run") => FailedIn(writes) \ {Stdout} \subseteq handled

\* A call issued after the failure of w1 was handled passed the filter and
\* returned.
C5_Witness ==
    \E r \in rets :
        /\ r.inv.kind = "call"
        /\ Passed(r.inv)
        /\ "w1" \in r.inv.handledAt
        /\ r.inv.enabledAt # {}

\* C5 as stated: with fallback enabled, a destination other than standard
\* output whose Write returned an error is disabled, and no Log issued
\* after that error writes to it.
C5_FailedDestinationGetsNoLaterWrite ==
    fallback =>
        \A w \in Writers \ {Stdout} :
            /\ w \in FailedIn(writes) /\ phase = "run" => destinations[w] = "nil"
            /\ \A i \in 1..Len(writes[w]) : w \notin writes[w][i].inv.failedAt

C7_OneDiagnosticPerRemainingDestination ==
    \A r \in rets :
        r.inv.kind = "diag" /\ ~r.inv.silentAt => r.started = r.inv.enabledAt

\* C8: the redelivery issued by the fallback path has the level and the
\* data list (items, order, arity) of the call whose write failed.  Stated
\* for a redelivery that passes the filter, in a logger whose minimum level
\* lets the diagnostic line through.
C8_RedeliverySameLevelAndData ==
    \A i \in AllInvocations :
        (i.kind = "redeliver" /\ Passed(i) /\ i.minAt <= Error) =>
            /\ i.level = i.of.level
            /\ i.data = i.of.data
            /\ Arity(i.data) = Arity(i.of.data)

\* C9: for one call of the caller, a destination receives at most one line
\* carrying the call's data (from the call itself or from its redelivery).
\* Stated for a logger whose minimum level lets the diagnostic line through.
C9_AtMostOneLinePerCallAndDestination ==
    \A w \in Writers :
        \A i, j \in 1..Len(writes[w]) :
            LET a == writes[w][i]
                b == writes[w][j]
            IN  (/\ i < j
                 /\ a.ok /\ b.ok
                 /\ a.inv.minAt <= Error /\ b.inv.minAt <= Error
                 /\ a.inv.root = b.inv.root
                 /\ a.inv.kind \in {"call", "redeliver"}
                 /\ b.inv.kind \in {"call", "redeliver"}) => FALSE

C11_SyncCompleteBeforeReturn ==
    ~async =>
        /\ units = {} /\ flushWg = 0
        /\ \A r \in rets :
             Passed(r.inv) =>
                 /\ \A w \in r.inv.enabledAt : w \in r.started \/ w \in handled
                 /\ \A w \in r.started :
                      IF FormatLogLine(Registered(w), [Level |-> r.inv.level, Tag |-> r.inv.tag],
                                       r.inv.data).err
                      THEN \E q \in rets : q.inv.kind = "fmterr" /\ Via(r.inv, w, q.inv)
                      ELSE /\ WritesOf(r.inv, w) # {}
                           /\ \A i \in WritesOf(r.inv, w) :
                                /\ writes[w][i].bytes[Len(writes[w][i].bytes)] = "\n"
                                /\ ~writes[w][i].ok => w \in handled
        /\ \A w \in Writers :
             \A i, j \in 1..Len(writes[w]) :
                 i < j => writes[w][i].inv.root <= writes[w][j].inv.root

\* Two sync calls returned, the first after the fallback handled a failed
\* write, and one writer holds lines of both calls.
C11_Witness ==
    /\ ~async
    /\ handled # {}
    /\ \E r1, r2 \in rets :
         /\ r1.inv.kind = "call" /\ r1.inv.root = 1 /\ r1.started # {}
         /\ r2.inv.kind = "call" /\ r2.inv.root = 2 /\ r2.started # {}
    /\ \E w \in Writers :
         \E i, j \in 1..Len(writes[w]) :
             writes[w][i].inv.root = 1 /\ writes[w][j].inv.root = 2

\* The Log call of the method Panic has been issued: it returned, and the
\* deliveries it started exist, as units in async mode, as Write calls or
\* reported formatter errors in sync mode.
DispatchIssued(inv) ==
    \E r \in rets :
        /\ r.inv = inv
        /\ inv.level = Panic
        /\ Passed(inv) /\ Enabled(destinations) # {} => r.started # {}
        /\ \A w \in r.started :
             \/ \E u \in units : u.inv = inv /\ u.w = w
             \/ WritesOf(inv, w) # {}
             \/ \E q \in rets : Via(inv, w, q.inv)

C12_WitnessReturns ==
    /\ ~panicOnPanicLevel
    /\ phase = "run"
    /\ \E r, q \in rets :
         /\ r.inv.kind = "Panic" /\ r.started # {}
         /\ q.inv.kind = "call" /\ q.inv.root = r.inv.root + 1

\* C13: the bytes handed to a writer for one line are the bytes the
\* destination's formatter returned for that line followed by one newline,
\* the only newline of the record; the formatter's bytes hold none.
C13_WriteAppendsOneNewline ==
    \A w \in Writers :
        \A i \in 1..Len(writes[w]) :
            LET rec == writes[w][i]
                fb  == FormatLogLine(Registered(w),
                                     [Level |-> rec.inv.level, Tag |-> rec.inv.tag],
                                     rec.inv.data).bytes
            IN  /\ rec.bytes = fb \o <<"\n">>
                /\ \A k \in 1..Len(fb) : fb[k] # "\n"
                /\ Cardinality({k \in 1..Len(rec.bytes) : rec.bytes[k] = "\n"}) = 1

\* An async logger wrote the redelivered line of a failed write to a
\* destination with the JSON formatter.
C13_Witness ==
    \E w \in Writers :
        \E i \in 1..Len(writes[w]) :
            /\ Registered(w) = "json"
            /\ async
            /\ Len(writes[w][i].bytes) > 1
            /\ writes[w][i].inv.kind = "redeliver"

\* C14: with the fields [level field, message field] and one string datum m
\* logged at level L, the text formatter returns "<L> m" and the JSON
\* formatter the object {"level":"L","message":"m"}, without error.
C14_LevelAndMessageLine ==
    (/\ out.done
     /\ fcase.fields = <<LevelField, MessageField>>
     /\ Len(fcase.data) = 1
     /\ fcase.data[1].t = "string") =>
        LET m == fcase.data[1].v
            L == LevelString(fcase.args.Level)
        IN  /\ out.err = "none"
            /\ out.bytes =
                 IF fcase.args.OutputFormat = OutputFormatText
                 THEN <<"<", L, ">", " ">> \o m
                 ELSE <<"{", "\"", "level", "\"", ":", "\"", L, "\"", ",",
                        "\"", "message", "\"", ":", "\"">> \o m \o <<"\"", "}">>

\* The scenario of the specification: level Info and the datum "hi", in
\* text.
C14_Witness ==
    /\ fcase.fields = <<LevelField, MessageField>>
    /\ fcase.data = <<Str(<<"hi">>)>>
    /\ fcase.args.Level = Info
    /\ out.done
    /\ out.bytes = <<"<", "INFO", ">", " ", "hi">>

\* The same scenario in JSON.
C14_WitnessJSON ==
    /\ fcase.fields = <<LevelField, MessageField>>
    /\ fcase.data = <<Str(<<"hi">>)>>
    /\ fcase.args.Level = Info
    /\ out.done
    /\ out.bytes = <<"{", "\"", "level", "\"", ":", "\"", "INFO", "\"", ",",
                     "\"", "message", "\"", ":", "\"", "hi", "\"", "}">>

\* The token of one result in a text line: "name=value", or the bare value
\* when the field hides its key.
Token(result) ==
    (IF result.fieldSettings.HideKey THEN <<>> ELSE <<result.fieldName, "=">>)
    \o Sprint(result.fieldData)

\* The tokens of the results joined by one separator.
RECURSIVE JoinTokens(_)
JoinTokens(results) ==
    IF results = <<>> THEN <<>>
    ELSE IF Len(results) = 1 THEN Token(results[1])
    ELSE Token(results[1]) \o <<" ">> \o JoinTokens(Tail(results))

\* C15: when every result sent is a successful one, the line the text
\* formatter returns is the tokens of the results, in the order they were
\* sent, joined by one separator: no separator after the last token, and
\* the empty line when there is no result.
C15_TextLineIsJoinedTokens ==
    (/\ out.done
     /\ out.err = "none"
     /\ fcase.args.OutputFormat = OutputFormatText) =>
        /\ out.bytes = JoinTokens(sent)
        /\ sent = <<>> => out.bytes = <<>>
        /\ (sent # <<>> /\ Token(sent[Len(sent)]) # <<>>) =>
               out.bytes[Len(out.bytes)] # " "

\* A text line of three results, with and without key.
C15_Witness ==
    /\ out.done
    /\ out.err = "none"
    /\ fcase.args.OutputFormat = OutputFormatText
    /\ Len(sent) = 3
    /\ \E i, j \in 1..Len(sent) :
         sent[i].fieldSettings.HideKey /\ ~sent[j].fieldSettings.HideKey

\* C16: with one data-matching field whose formatter returns the datum, and
\* two data items of one type it accepts, the processor sends two results
\* under the field's name, the first datum then the second; the text line
\* holds both values in that order, and the JSON object holds the key once,
\* with the second value.
C16_TwoDataOneField ==
    (/\ out.done
     /\ Len(fcase.fields) = 1
     /\ ~fcase.fields[1].AlwaysMatch
     /\ fcase.formatters[fcase.fields[1].name].kind = "object"
     /\ fcase.formatters[fcase.fields[1].name].inner = "id"
     /\ Len(fcase.data) = 2
     /\ fcase.data[1].t = fcase.data[2].t
     /\ fcase.formatters[fcase.fields[1].name].T \in {"any", fcase.data[1].t}) =>
        LET name == fcase.fields[1].name
            key  == IF fcase.fields[1].HideKey THEN <<>> ELSE <<name, "=">>
            x    == fcase.data[1]
            y    == fcase.data[2]
        IN  /\ Len(sent) = 2
            /\ \A i \in 1..2 :
                 /\ sent[i].fieldName = name
                 /\ sent[i].err = "none"
                 /\ sent[i].fieldData = fcase.data[i]
            /\ out.err = "none"
            /\ out.bytes =
                 IF fcase.args.OutputFormat = OutputFormatText
                 THEN key \o Sprint(x) \o <<" ">> \o key \o Sprint(y)
                 ELSE <<"{", "\"", name, "\"", ":">> \o MarshalValue(y) \o <<"}">>

\* The JSON object of the field a for the data "hi", "yo" holds "yo".
C16_Witness ==
    /\ out.done
    /\ fcase.fields = <<Field("a", FALSE, FALSE)>>
    /\ fcase.data = <<Str(<<"hi">>), Str(<<"yo">>)>>
    /\ Len(sent) = 2
    /\ out.bytes = <<"{", "\"", "a", "\"", ":", "\"", "yo", "\"", "}">>

\* The calls of the formatter of the field fi, and the results sent for it.
CallsOf(fi) == {i \in 1..Len(calls) : calls[i].fi = fi}
SentOf(fi)  == {k \in 1..Len(sent) : sent[k].fi = fi}

\* C17: when a line has been processed without fatal error, the formatter
\* of every AlwaysMatch field was called exactly once, with struct{}{} and
\* no datum, exactly one result was sent for the field, and the field
\* marked no datum as matched, whatever the number of data items.
C17_AlwaysMatchOneResult ==
    (out.done /\ out.err = "none") =>
        \A fi \in 1..Len(fcase.fields) :
            fcase.fields[fi].AlwaysMatch =>
                /\ Cardinality(CallsOf(fi)) = 1
                /\ \A i \in CallsOf(fi) : calls[i].di = 0 /\ calls[i].datum = NoDatum
                /\ Cardinality(SentOf(fi)) = 1
                /\ \A k \in SentOf(fi) : sent[k].di = 0

\* The invocation matched its datum: the formatter returned a value.
Success(c) ==
    Matches(Invoke(fcase.formatters[fcase.fields[c.fi].name], fcase.args, c.datum))

\* C18: a datum is consumed by at most one field.  Once a formatter call
\* on it succeeded, the datum is marked matched and it is never passed to a
\* formatter again, of the same or of a later field, so that no other
\* result is sent for it; a datum is marked only by such a call.
C18_DatumConsumedOnce ==
    /\ \A i, j \in 1..Len(calls) :
         (i < j /\ calls[i].di # 0 /\ calls[i].di = calls[j].di) => ~Success(calls[i])
    /\ \A k \in 1..Len(sent) :
         sent[k].di # 0 =>
             \E i \in 1..Len(calls) : calls[i].fi = sent[k].fi /\ calls[i].di = sent[k].di
    /\ \A d \in 1..Len(fcase.data) :
         proc.matchedData[d] <=> \E i \in 1..Len(calls) : calls[i].di = d /\ Success(calls[i])
    /\ \A d \in 1..Len(fcase.data) :
         Cardinality({i \in 1..Len(calls) : calls[i].di = d /\ Success(calls[i])}) <= 1

\* The first of two fields that accept strings consumed a string, and the
\* second field scanned the data after it.
C18_Witness ==
    /\ out.done
    /\ Len(fcase.fields) = 2
    /\ \A fi \in 1..2 :
         /\ ~fcase.fields[fi].AlwaysMatch
         /\ fcase.formatters[fcase.fields[fi].name] = ObjectFormatter("string", "id")
    /\ fcase.fields[1].name # fcase.fields[2].name
    /\ \E i, j \in 1..Len(calls) :
         /\ calls[i].fi = 1 /\ calls[i].di = 1 /\ Success(calls[i])
         /\ calls[j].fi = 2 /\ calls[j].di = 2

\* The results the processor sends for two data-matching fields A, B of
\* disjoint types and the data x, y: A's result for the datum of A's type,
\* then B's result for the datum of B's type.
IndexOfType(T) == CHOOSE d \in 1..Len(fcase.data) : fcase.data[d].t = T

Pairing ==
    LET TA == fcase.formatters[fcase.fields[1].name].T
        TB == fcase.formatters[fcase.fields[2].name].T
    IN  <<sendResult(fcase.fields[1], fcase.data[IndexOfType(TA)], 1, IndexOfType(TA)),
          sendResult(fcase.fields[2], fcase.data[IndexOfType(TB)], 2, IndexOfType(TB))>>

DisjointPair ==
    /\ Len(fcase.fields) = 2
    /\ \A fi \in 1..2 :
         /\ ~fcase.fields[fi].AlwaysMatch
         /\ fcase.formatters[fcase.fields[fi].name].kind = "object"
         /\ fcase.formatters[fcase.fields[fi].name].inner = "id"
    /\ Len(fcase.data) = 2
    /\ fcase.formatters[fcase.fields[1].name].T # fcase.formatters[fcase.fields[2].name].T
    /\ {fcase.formatters[fcase.fields[fi].name].T : fi \in 1..2}
         = {fcase.data[d].t : d \in 1..2}

Fatal(c) ==
    Invoke(fcase.formatters[fcase.fields[c.fi].name], fcase.args, c.datum).err = "fatal"

\* C20: a field without registered formatter, or a formatter error that is
\* neither invalid-data-type nor non-fatal, makes the processor send that
\* error and stop: the error is the last thing sent, no formatter is called
\* afterwards and no later field is looked at.  FormatLogLine, text or
\* JSON, then returns that error and no bytes, whatever was sent before;
\* it returns an error in no other case.
C20_FatalErrorAbortsLine ==
    /\ \A i \in 1..Len(calls) :
         Fatal(calls[i]) =>
             /\ i = Len(calls)
             /\ sent # <<>>
             /\ sent[Len(sent)].err = "fatal"
             /\ sent[Len(sent)].fi = calls[i].fi /\ sent[Len(sent)].di = calls[i].di
    /\ \A fi \in 1..Len(fcase.fields) :
         (fcase.formatters[fcase.fields[fi].name] = Missing /\ proc.fi >= fi
          /\ (proc.fi = fi => proc.pc \in {"return", "closed"})) =>
             /\ sent # <<>>
             /\ sent[Len(sent)].err = "init"
             /\ sent[Len(sent)].fi = fi
             /\ CallsOf(fi) = {}
    /\ \A k \in 1..Len(sent) :
         sent[k].err # "none" =>
             /\ k = Len(sent)
             /\ proc.pc \in {"return", "closed"}
             /\ proc.fi = sent[k].fi
             /\ \A i \in 1..Len(calls) : calls[i].fi <= sent[k].fi
             /\ out.done => out.err = sent[k].err /\ out.bytes = <<>>
    /\ (out.done /\ out.err # "none") =>
         sent # <<>> /\ sent[Len(sent)].err = out.err

\* A line was aborted by the fatal error of its second field after the
\* result of the first was sent.
C20_Witness ==
    /\ out.done
    /\ out.err = "fatal"
    /\ Len(sent) = 2
    /\ sent[1].fi = 1 /\ sent[2].fi = 2

\* A line was aborted by the missing formatter of its first field, the
\* second field being one that always matches.
C20_WitnessMissing ==
    /\ out.done
    /\ out.err = "init"
    /\ Len(fcase.fields) = 2
    /\ fcase.fields[2].AlwaysMatch
    /\ sent[1].fi = 1

\* The outcome of the formatter call c.
OutcomeOf(c) ==
    Invoke(fcase.formatters[fcase.fields[c.fi].name], fcase.args, c.datum)

Invalid(c) == OutcomeOf(c).err = "invalid"

\* The results sent for the field fi and the datum di.
SentFor(fi, di) == {k \in 1..Len(sent) : sent[k].fi = fi /\ sent[k].di = di}

\* The processor went through all the fields.
Processed == proc.pc = "closed" /\ \A k \in 1..Len(sent) : sent[k].err = "none"

\* C21: a formatter call that reports an invalid data type sends nothing
\* for that field and datum, leaves the datum unmatched and does not abort
\* the line: the only errors sent are fatal ones, and when all fields are
\* processed every data-matching field was offered every datum no earlier
\* field consumed.  A datum every field rejected is unmatched in the end,
\* nothing was sent for it, and the formatter returns without error.
C21_InvalidTypeSkipsPair ==
    /\ \A i \in 1..Len(calls) :
         Invalid(calls[i]) =>
             /\ SentFor(calls[i].fi, calls[i].di) = {}
             /\ calls[i].di # 0 =>
                  (proc.matchedData[calls[i].di] =>
                      \E j \in 1..Len(calls) :
                          j # i /\ calls[j].di = calls[i].di /\ Success(calls[j]))
    /\ \A k \in 1..Len(sent) : sent[k].err \in {"none", "fatal", "init"}
    /\ \A k \in 1..Len(sent) :
         sent[k].err = "fatal" => Fatal(calls[Len(calls)])
    /\ Processed =>
         \A fi \in 1..Len(fcase.fields) :
             ~fcase.fields[fi].AlwaysMatch =>
                 \A d \in 1..Len(fcase.data) :
                     \/ \E i \in 1..Len(calls) : calls[i].fi = fi /\ calls[i].di = d
                     \/ \E i \in 1..Len(calls) :
                            calls[i].fi < fi /\ calls[i].di = d /\ Success(calls[i])
    /\ \A d \in 1..Len(fcase.data) :
         (\A i \in 1..Len(calls) : calls[i].di = d => Invalid(calls[i])) =>
             /\ ~proc.matchedData[d]
             /\ \A k \in 1..Len(sent) : sent[k].di # d
    /\ (out.done /\ \A i \in 1..Len(calls) : Invalid(calls[i]) \/ Success(calls[i])) =>
         (out.err = "none"
          \/ \E fi \in 1..Len(fcase.fields) : fcase.formatters[fcase.fields[fi].name] = Missing)

\* Two fields rejected a datum in turn and the formatter returned a line.
C21_Witness ==
    /\ out.done
    /\ out.err = "none"
    /\ Len(fcase.fields) = 2
    /\ \E i, j \in 1..Len(calls) :
         /\ calls[i].fi = 1 /\ calls[j].fi = 2
         /\ calls[i].di = calls[j].di /\ calls[i].di # 0
         /\ Invalid(calls[i]) /\ Invalid(calls[j])
    /\ sent # <<>>

NonFatal(c) == OutcomeOf(c).err = "nonfatal"

----------------------------------------------------------------------------
\* The escape sequence the content is to be wrapped in, with or without the
\* background code.
AnsiSequence(ac, content, withBackground) ==
    ansiCSInit \o SettingsBytes(ac.Settings)
    \o (IF withBackground THEN ac.Background.b \o <<ansiCSSeparator>> ELSE <<>>)
    \o ac.Code \o <<ansiCSEnd>> \o content \o ansiReset

\* C23: Colorize returns empty content unchanged; for non-empty content it
\* returns exactly ESC[, each setting code followed by ';', the background
\* code followed by ';' when a background is set (be that read as "not nil"
\* or as "not empty"), the foreground code, 'm', the content and ESC[0m; for
\* Red and "test" the bytes are ESC[31mtestESC[0m.
C23_ColorizeExactBytes ==
    Returns("Colorize") =>
        LET ac      == call.in.ac
            content == call.in.content
        IN  /\ content = <<>> => reply.val = <<>>
            /\ content # <<>> =>
                   \/ reply.val = AnsiSequence(ac, content, ~ac.Background.nil)
                   \/ reply.val = AnsiSequence(ac, content, Len(ac.Background.b) > 0)
            /\ (ac = Red /\ content = <<"t", "e", "s", "t">>) =>
                   reply.val = <<ESC, "[", "3", "1", "m", "t", "e", "s", "t", ESC, "[", "0", "m">>

\* The same for the colors whose background is nil or has bytes.
C23_ExactUnlessEmptyBackground ==
    (Returns("Colorize") /\ (call.in.ac.Background.nil \/ Len(call.in.ac.Background.b) > 0)) =>
        /\ call.in.content = <<>> => reply.val = <<>>
        /\ call.in.content # <<>> =>
               reply.val = AnsiSequence(call.in.ac, call.in.content, ~call.in.ac.Background.nil)

\* Colorize returned a buffer that ends in a zero byte.
C23_TrailingZeroByte ==
    /\ Returns("Colorize")
    /\ reply.val # <<>>
    /\ reply.val[Len(reply.val)] = NUL

----------------------------------------------------------------------------
C24_WitnessAsync ==
    \E u \in units :
        /\ u.f = "color"
        /\ u.done
        /\ u.inv.level = Debug
        /\ \E i \in AllInvocations : Via(u.inv, u.w, i) /\ i.kind = "fmterr"

----------------------------------------------------------------------------
\* C25: NewObjectField called with an empty name, a nil formatter or an
\* option that fails, and NewFormatter called with an output format that is
\* neither text nor JSON, return an error and no usable field or formatter
\* (the zero field, without name and format function; the nil formatter);
\* every other call returns a field or formatter and no error.
C25_ConstructorErrors ==
    /\ Returns("NewObjectField") =>
           LET bad == \/ call.in.name = ""
                      \/ call.in.formatter = "nil"
                      \/ \E i \in 1..Len(call.in.opts) : call.in.opts[i].o = "failing"
           IN  /\ bad => /\ reply.err # "none"
                         /\ reply.val.name = ""
                         /\ reply.val.format.kind = "nil"
               /\ ~bad => /\ reply.err = "none"
                          /\ reply.val.name = call.in.name
                          /\ reply.val.format = ObjectFormatter(call.in.T, call.in.formatter)
    /\ Returns("NewFormatter") =>
           LET known == call.in.outputFormat \in {"text", "json"}
           IN  /\ ~known => reply.err = "ErrorInvalidOutput" /\ reply.val.kind = "nil"
               /\ known => reply.err = "none" /\ reply.val.kind # "nil"
    /\ call.fn = "FormatLogLine" =>
           call.in.of.outputFormat \in {"text", "json"} /\ call.in.f.kind # "nil"

\* NewObjectField returned for a nil formatter, a name and options that
\* succeed.
C25_Witness ==
    /\ Returns("NewObjectField")
    /\ call.in.formatter = "nil"
    /\ call.in.name = "a"
    /\ Len(call.in.opts) = 2
    /\ \A i \in 1..Len(call.in.opts) : call.in.opts[i].o # "failing"
    /\ reply.err = "ErrorNilFormatter"

\* NewFormatter returned for an unknown output format and a colorization
\* option.
C25_WitnessFormatter ==
    /\ Returns("NewFormatter")
    /\ call.in.outputFormat = "xml"
    /\ call.in.opts # <<>>
    /\ reply.err = "ErrorInvalidOutput"

----------------------------------------------------------------------------
\* The table of the colorization option a formatter was constructed with
\* lacks a color for the level.
Lacks(opts, level) ==
    \E i \in 1..Len(opts) :
        /\ opts[i].o = "WithColorization"
        /\ ~opts[i].colors.nil
        /\ level \notin DOMAIN opts[i].colors.m

\* C26: a level-to-color table that lacks a color for some level is reported
\* as an error when the colorized formatter is constructed, and a missing
\* per-level color is never first detected while a line is formatted.
C26_MissingColorReportedAtConstruction ==
    /\ (Returns("NewFormatter") /\ call.in.outputFormat \in {"text", "json"}) =>
           ((\E level \in Levels : Lacks(call.in.opts, level)) => reply.err # "none")
    /\ Returns("FormatLogLine") => reply.err # "ErrorMissingLevelColor"

\* C27: with WithColorization(colors), a line logged at a level that is not
\* present in colors is colorized with the default color for that level.
C27_DefaultColorForAbsentLevel ==
    (/\ Returns("FormatLogLine")
     /\ Lacks(call.in.of.opts, call.in.level)
     /\ call.in.base.err = "none") =>
        /\ reply.err = "none"
        /\ reply.val = Colorize(defaultLevelColors[call.in.level], call.in.base.bytes)

\* What the formatter does instead: for every level the table lacks, the
\* missing-level-color error and the bytes of the inner formatter; for the
\* levels it has, and for all five levels under a nil table or
\* WithDefaultColorization, the line in the color of the table.
C27_AbsentLevelIsAnError ==
    (Returns("FormatLogLine") /\ call.in.base.err = "none" /\ call.in.of.opts # <<>>) =>
        IF Lacks(call.in.of.opts, call.in.level)
        THEN reply.err = "ErrorMissingLevelColor" /\ reply.val = call.in.base.bytes
        ELSE /\ reply.err = "none"
             /\ reply.val = Colorize(call.in.f.LevelColors[call.in.level], call.in.base.bytes)
             /\ call.in.of.opts[1].colors.nil =>
                    call.in.f.LevelColors = defaultLevelColors

----------------------------------------------------------------------------
\* C28: the levels are ordered Debug < Info < Warn < Error < Panic, and
\* ParseLevel inverts String on the five levels, whatever the case of the
\* letters: it returns L for every spelling of L.String() and an error for
\* every other string.
C28_LevelOrderAndParse ==
    /\ Debug < Info /\ Info < Warn /\ Warn < Error /\ Error < Panic
    /\ \A i, j \in 1..Len(AllLevels) : i < j => AllLevels[i] < AllLevels[j]
    /\ Returns("ParseLevel") =>
           LET named == {l \in Levels : call.in.levelStr \in Spellings(LevelStringChars(l))}
           IN  /\ \A l \in Levels :
                      call.in.levelStr = LevelStringChars(l) =>
                          reply.err = "none" /\ reply.val = l
               /\ named # {} => reply.err = "none" /\ named = {reply.val}
               /\ named = {} => reply.err = "ErrorLevelParsing"

\* ParseLevel returned Panic for PANIC, the string of the level Panic.
C28_Witness ==
    /\ Returns("ParseLevel")
    /\ call.in.levelStr = LevelStringChars(Panic)
    /\ reply.val = Panic
    /\ reply.err = "none"

\* ParseLevel returned an error for UNKNOWN, the string of a value that is
\* no level.
C28_WitnessError ==
    /\ Returns("ParseLevel")
    /\ call.in.levelStr = LevelStringChars(OtherLevel)
    /\ reply.err = "ErrorLevelParsing"

----------------------------------------------------------------------------
\* C29: once the deadline of an async unit has elapsed, a format result or
\* write result that arrives later (is sent on its channel after the
\* deadline) is never acted upon: no write is started from a late format
\* result, and a late write error neither disables the destination, nor
\* emits a diagnostic line, nor redelivers the call.
C29_LateResultsNeverActedUpon ==
    /\ fgo.late => "go write" \notin trail.did
    /\ fgo.late => "l.Error" \notin trail.did
    /\ wgo.late => trail.did \cap {"disable", "diagnostic", "redeliver"} = {}

\* The same for the units that were blocked in a select, with no result
\* handed to them yet, when the deadline elapsed.
C29_HoldsForBlockedUnits ==
    trail.at \in {"blocked1", "blocked2"} =>
        /\ fgo.late => trail.did \cap {"go write", "l.Error"} = {}
        /\ wgo.late => trail.did \cap {"disable", "diagnostic", "redeliver", "panic"} = {}

\* The unit had not reached its second select when the deadline elapsed, and
\* handled the write error that was sent afterwards.
C29_LateErrorHandled ==
    /\ wgo.late
    /\ trail.at \in {"woken", "select2"}
    /\ "disable" \in trail.did
    /\ ugo.out = "WriteError"

\* The paths Start -> Formatting -> {Dropped | FormatError | Ready} ->
\* Writing -> {Dropped | WriteError | Done}.
Ends1 == {"Dropped", "FormatError"}
Ends2 == {"Dropped", "WriteError", "Done"}
Paths ==
    {<<"Start", "Formatting", e>> : e \in Ends1}
    \cup {<<"Start", "Formatting", "Ready", "Writing", e>> : e \in Ends2}
OnPath(ps) == \E p \in Paths : Len(ps) <= Len(p) /\ ps = SubSeq(p, 1, Len(ps))

\* C30: an async unit follows Start -> Formatting -> {Dropped | FormatError
\* | Ready} -> Writing -> {Dropped | WriteError | Done}; the write phase
\* starts only after the format phase delivered an error-free, non-empty
\* result before the deadline; a format error, an empty result or an elapsed
\* deadline ends the unit with zero bytes written to the destination for
\* the line, then and ever after.
C30_UnitStateMachine ==
    /\ OnPath(trail.phases)
    /\ "go write" \in trail.did =>
           /\ fgo.pc = "exit"
           /\ ~fgo.res.err
           /\ Len(fgo.res.bytes) > 0
           /\ ~fgo.late
    /\ wgo.pc # "idle" <=> "go write" \in trail.did
    /\ ugo.out \in {"Dropped", "FormatError"} => trail.writes = <<>>

\* What holds of it: the path, a write phase that starts only from an
\* error-free, non-empty result the unit received, and no byte written for a
\* unit that ended in its format phase.
C30_HoldsOfFormatPhase ==
    /\ OnPath(trail.phases)
    /\ "go write" \in trail.did =>
           /\ fgo.pc = "exit"
           /\ ~fgo.res.err
           /\ Len(fgo.res.bytes) > 0
    /\ wgo.pc # "idle" <=> "go write" \in trail.did
    /\ (ugo.pc = "returned" /\ Len(trail.phases) = 3) => trail.writes = <<>>
    /\ Len(trail.writes) <= 1

\* The unit was blocked in its second select when the deadline elapsed and
\* ended there, and the line was written to the destination afterwards.
C30_DroppedLineWritten ==
    /\ ugo.out = "Dropped"
    /\ trail.at = "blocked2"
    /\ Len(trail.writes) = 1
    /\ trail.writes[1].expired
    /\ trail.writes[1].returned

\* C31: after construction the set of destination writers is the one the
\* options registered: no step of Log, the level calls, the setters, Flush,
\* the units or the fallback path adds or removes a writer.  The only change
\* of the table is an enabled formatter set to nil, and a nil formatter
\* stays nil.
C31_DestinationSetFixed ==
    /\ [](Keys(destinations) = Keys(NewLoggerWithOptions(options).destinations))
    /\ [][/\ Keys(destinations') = Keys(destinations)
          /\ \A w \in Writers :
               destinations'[w] # destinations[w] =>
                   /\ destinations[w] \in Formatters
                   /\ destinations'[w] = "nil"
                   /\ w \in handled']_vars

\* The fallback path disabled a destination, and a later call of the caller
\* found it disabled and returned with the table's writers unchanged.
C31_Witness ==
    \E w \in Writers :
        /\ Registered(w) \in Formatters
        /\ destinations[w] = "nil"
        /\ \E r \in rets :
             /\ r.inv.kind = "call"
             /\ Passed(r.inv)
             /\ w \in r.inv.handledAt
             /\ r.started # {}

\* C32: the assignment to the destination table in the fallback path
\* excludes every other access to the table: no unit makes it while the
\* caller or another unit is in the range loop of a Log or is itself
\* assigning to the table.
C32_TableAccessExclusive ==
    [][\A u \in units :
          (Running(u) /\ u \notin units' /\ destinations' # destinations) =>
              /\ ~Iterating(caller)
              /\ \A v \in units \ {u} : ~Iterating(v.stack)]_vars

\* The race as the Go runtime reports it: the process is never ended by a
\* concurrent access to the destination table.
C32_NoFatalMapAccess == phase # "fatal"

\* C33: a formatter error aborts the line for that destination and nothing
\* more, whatever the formatter: the report of the error is not itself a
\* line whose formatting fails and is reported by the same report again, so
\* that the chain of Log calls started by one call ends, the sync Log
\* returns and the async units all finish.  An error report that stems from
\* the failure of the same report (same level, same data, same destination)
\* repeats without end.
C33_FormatErrorNeverBlocks ==
    \A i \in AllInvocations :
        i.kind = "fmterr" =>
            ~(/\ i.of.level = i.level
              /\ i.of.data = i.data
              /\ Len(i.path) >= 4
              /\ i.path[Len(i.path) - 3] = i.path[Len(i.path) - 1])

\* What holds of formatter errors: they disable nothing (a destination is
\* disabled for a failed write only), and nothing is written to the
\* destination for a line whose formatting failed.
C33_FormatErrorAbortsLine ==
    /\ handled \subseteq FailedIn(writes)
    /\ \A w \in Writers :
         \A k \in 1..Len(writes[w]) :
             ~FormatLogLine(Registered(w),
                            [Level |-> writes[w][k].inv.level, Tag |-> writes[w][k].inv.tag],
                            writes[w][k].inv.data).err

\* The diagnostic Log calls made so far: one per call of
\* handleLogWriterError that did not panic.
Diagnostics == {i \in AllInvocations : i.kind = "diag"}

\* No registered formatter fails or hangs on every line.
Rendering == \A w \in Writers : Registered(w) \notin {"err", "hang"}

\* C34: fallback handling terminates for any set of failing writers.  Every
\* handled write failure disables one more destination other than standard
\* output, so there are as many handled failures as disabled destinations,
\* at most as many as the logger has such destinations, and the recursion of
\* diagnostic and redelivery calls started by one Log call stays within the
\* depth those destinations need.  Stated for formatters that render: the
\* recursion of formatter errors is another matter.
C34_FallbackTerminates ==
    Rendering =>
        /\ phase # "overflow"
        /\ Cardinality(Diagnostics) = Cardinality(handled)
        /\ Cardinality(Diagnostics) <= Cardinality(Keys(destinations) \ {Stdout})

\* The same in sync mode, where the claim holds.
C34_HoldsInSyncMode == ~async => C34_FallbackTerminates

\* The results the formatter has received: those sent and no longer held
\* by their sender.
Received == Len(sent) - Len(chan)

\* C35: the processor and the formatter never deadlock on the result
\* stream.  The formatter receives the results in the order they were sent;
\* at most one error result is sent and it is the last item sent; the
\* stream is closed once, after the last send was received, and nothing is
\* sent after that; the formatter returns only after it read the error or
\* found the stream closed; and every call ends with the formatter returned
\* and the stream closed.
C35_StreamNeverDeadlocks ==
    /\ [](/\ Len(chan) <= 1
          /\ chan # <<>> => chan[1] = sent[Len(sent)]
          /\ cons # <<>> => cons[1] = sent[Received]
          /\ \A k \in 1..Len(sent) : sent[k].err # "none" => k = Len(sent)
          /\ proc.pc = "closed" => chan = <<>>
          /\ out.done =>
                IF out.err # "none"
                THEN /\ sent # <<>>
                     /\ sent[Len(sent)].err = out.err
                     /\ Received = Len(sent)
                ELSE /\ proc.pc = "closed"
                     /\ \A k \in 1..Len(sent) : sent[k].err = "none")
    /\ [][/\ (cons' # cons /\ cons' # <<>>) => cons' = <<sent[Received + 1]>>
          /\ proc.pc = "closed" => proc'.pc = "closed" /\ sent' = sent]_vars
    /\ <>[](out.done /\ proc.pc = "closed" /\ chan = <<>> /\ cons = <<>>)

\* A call whose second field failed with a fatal error after the first
\* field's result had been received: the formatter returned the error and
\* the stream is closed.
C35_Witness ==
    /\ out.done
    /\ out.err = "fatal"
    /\ proc.pc = "closed"
    /\ Len(sent) >= 2
    /\ sent[Len(sent)].fi = 2

\* A call with two results and no error: the formatter returned after the
\* close.
C35_WitnessClosed ==
    /\ out.done
    /\ out.err = "none"
    /\ proc.pc = "closed"
    /\ Len(sent) >= 2

\* The Write calls made so far, with their writers.
Records ==
    UNION {{[w |-> w, rec |-> writes[w][i]] : i \in 1..Len(writes[w])} : w \in Writers}

\* The same invocation of Log: the same call of the caller and the same
\* chain of failures.
SameLog(i, j) == i.root = j.root /\ i.path = j.path

C36_WitnessSilenced ==
    /\ async
    /\ silent
    /\ \E a \in Records :
         /\ a.rec.inv.kind = "call"
         /\ ~a.rec.inv.silentAt
         /\ \E u \in units : u.inv = a.rec.inv /\ u.w = a.w /\ u.done

\* The field fi has been through its scan of the data.
Scanned(fi) ==
    \/ proc.fi > fi
    \/ proc.fi = fi /\ proc.pc \in {"return", "closed"} /\ ~\E k \in SentOf(fi) : sent[k].err # "none"

\* The datum d was consumed by a field declared before fi.
ConsumedBefore(fi, d) ==
    \E i \in 1..Len(calls) : calls[i].fi < fi /\ calls[i].di = d /\ Success(calls[i])

\* The field fi is a data-matching field whose formatter returns the data of
\* the type T it asserts.
Accepts(fi, T) ==
    /\ ~fcase.fields[fi].AlwaysMatch
    /\ fcase.formatters[fcase.fields[fi].name] = ObjectFormatter(T, "id")

\* C37: a field that is not AlwaysMatch is offered the data no earlier field
\* consumed, each once and in call order, and consumes every datum its
\* formatter accepts, sending one result for each (none, one or several).
\* So of two declared fields whose formatters accept the same type, the
\* earlier one consumes all data of that type and the later one is offered
\* none of them and sends nothing.
C37_EarlierFieldConsumesAll ==
    /\ \A i, j \in 1..Len(calls) :
         (i < j /\ calls[i].fi = calls[j].fi) => calls[i].di < calls[j].di
    /\ \A fi \in 1..Len(fcase.fields) :
         (~fcase.fields[fi].AlwaysMatch /\ Scanned(fi)) =>
             \A d \in 1..Len(fcase.data) :
                 (\E i \in CallsOf(fi) : calls[i].di = d) <=> ~ConsumedBefore(fi, d)
    /\ \A i \in 1..Len(calls) :
         (Success(calls[i]) /\ calls[i].di # 0
          /\ (i < Len(calls) \/ proc.pc \in {"return", "closed"})) =>
             /\ proc.matchedData[calls[i].di]
             /\ Cardinality(SentFor(calls[i].fi, calls[i].di)) = 1
    /\ \A fi, fj \in 1..Len(fcase.fields) :
         \A T \in Types :
             (fi < fj /\ Accepts(fi, T) /\ Accepts(fj, T) /\ Scanned(fj)) =>
                 /\ Cardinality(SentOf(fi))
                      = Cardinality({d \in 1..Len(fcase.data) : asserts(T, fcase.data[d])})
                 /\ \A k \in SentOf(fi) : sent[k].fieldData = fcase.data[sent[k].di]
                 /\ SentOf(fj) = {}
                 /\ \A i \in CallsOf(fj) : ~asserts(T, calls[i].datum)

\* The fields message and a both take strings: for the data "hi", "yo" the
\* field message sent two results and the field a none.
C37_Witness ==
    /\ out.done
    /\ out.err = "none"
    /\ Len(fcase.fields) = 2
    /\ fcase.fields[1].name # fcase.fields[2].name
    /\ Accepts(1, "string") /\ Accepts(2, "string")
    /\ fcase.data = <<Str(<<"hi">>), Str(<<"yo">>)>>
    /\ Cardinality(SentOf(1)) = 2
    /\ SentOf(2) = {}

\* What sync mode hands to the writer w for the invocation inv with the
\* formatter f (writeLogLine, logger.go:239-245): nothing when the formatter
\* fails, the formatter's bytes and a newline otherwise, empty line included.
SyncDelivery(w, f, inv) ==
    LET r == FormatLogLine(f, [Level |-> inv.level, Tag |-> inv.tag], inv.data)
    IN  IF r.returns /\ ~r.err THEN <<write(w, r.bytes).bytes>> ELSE <<>>

\* The bytes the writer w received for the invocation inv, in order.
RECURSIVE BytesFor(_, _, _)
BytesFor(w, inv, n) ==
    IF n = 0 THEN <<>>
    ELSE BytesFor(w, inv, n - 1)
         \o (IF writes[w][n].inv = inv THEN <<writes[w][n].bytes>> ELSE <<>>)

\* C38: with no failing writer, an async unit that is not ended by its
\* deadline delivers what sync mode delivers for the same logger and call.
\* A unit for which sync mode writes a line cannot end without writing: its
\* only steps are the write of that line and the deadline; and a unit that
\* has written has handed the writer exactly the bytes of sync mode, once.
C38_AsyncDeliversWhatSyncDelivers ==
    (async /\ failing = {}) =>
        \A u \in units :
            LET sync == SyncDelivery(u.w, u.f, u.inv)
            IN  /\ (Running(u) /\ sync # <<>>) =>
                     /\ ENABLED UnitWriteResult(u)
                     /\ ~ENABLED UnitFormatResult(u)
                /\ u.write = "done" => BytesFor(u.w, u.inv, Len(writes[u.w])) = sync
                /\ sync = <<>> => BytesFor(u.w, u.inv, Len(writes[u.w])) = <<>>

\* The same for the calls whose formatter returns a line that is not empty,
\* where it holds.
C38_HoldsForNonEmptyLines ==
    (async /\ failing = {}) =>
        \A u \in units :
            LET sync == SyncDelivery(u.w, u.f, u.inv)
            IN  /\ (Running(u) /\ sync # <<>> /\ Len(sync[1]) > 1) =>
                     /\ ENABLED UnitWriteResult(u)
                     /\ ~ENABLED UnitFormatResult(u)
                /\ u.write = "done" => BytesFor(u.w, u.inv, Len(writes[u.w])) = sync
                /\ sync = <<>> => BytesFor(u.w, u.inv, Len(writes[u.w])) = <<>>

\* Sync mode wrote the empty line of a formatter that returned no bytes.
C38_SyncWritesEmptyLine ==
    /\ ~async
    /\ \E a \in Records : Registered(a.w) = "empty" /\ a.rec.bytes = <<"\n">> /\ a.rec.ok

\* Async mode has finished the unit of such a line, and Flush has returned:
\* nothing was written.
C38_AsyncDropsEmptyLine ==
    /\ async
    /\ \E u \in units :
         /\ u.f = "empty"
         /\ u.done
         /\ writes[u.w] = <<>>
         /\ [inv |-> u.inv, w |-> u.w, done |-> TRUE] \in flushSeen

\* The tokens of a line.
Tokens(line) == {line[k] : k \in 1..Len(line)}

\* C39: nil field data renders as empty text in the Text line: the line
\* TextFormatter.FormatLogLine returns never holds the placeholder token
\* "<nil>", and a field whose formatter succeeded with nil data adds no
\* text of its own to it.
C39_NilDataRendersEmpty ==
    (Returns("TextFormatter.FormatLogLine") /\ reply.err = "none") =>
        /\ "<nil>" \notin Tokens(reply.val)
        /\ \A k \in 1..Len(reply.val) : reply.val[k] \in {"hi", " "}

\* The formatter was given one field whose formatter returned nil data and
\* no error, and returned the placeholder.
C39_PlaceholderWritten ==
    /\ Returns("TextFormatter.FormatLogLine")
    /\ call.in.fields = <<FieldOutcome("b", FALSE, Nil, "none")>>
    /\ reply.val = <<"<nil>">>

\* The text formatter fed by the field processor (part_005): a field whose
\* formatter returns nil sends no result, and the line never holds the
\* placeholder token.
C39_HoldsOfProcessorPipeline ==
    /\ \A k \in 1..Len(sent) : sent[k].err = "none" => sent[k].fieldData # Nil
    /\ \A i \in 1..Len(calls) :
         (OutcomeOf(calls[i]).err = "none" /\ OutcomeOf(calls[i]).val = Nil) =>
             SentFor(calls[i].fi, calls[i].di) = {}
    /\ (out.done /\ fcase.args.OutputFormat = OutputFormatText) =>
         "<nil>" \notin Tokens(out.bytes)

\* The bytes Colorize wrote into its buffer: those that are not the zero
\* byte the buffer was made of (no input of the model holds a zero byte).
Written(buf) == Cardinality({k \in 1..Len(buf) : buf[k] # NUL})

\* The length the claim gives: the background counts when Colorize emits it.
ClaimedLength(ac, content) ==
    Len(ansiCSInit) + Len(SettingsBytes(ac.Settings))
    + (IF Len(ac.Background.b) > 0 THEN Len(ac.Background.b) + 1 ELSE 0)
    + Len(ac.Code) + 1 + Len(content) + Len(ansiReset)

\* C40: for every color and every non-empty content the buffer Colorize
\* returns has the length totalBufferLength computes, which is the number
\* of bytes Colorize wrote and the sum of the lengths of the pieces it
\* emitted; the buffer has no unwritten byte at its end.
C40_BufferLengthIsBytesWritten ==
    (Returns("Colorize") /\ call.in.content # <<>>) =>
        LET ac      == call.in.ac
            content == call.in.content
        IN  /\ Len(reply.val) = totalBufferLength(ac, content)
            /\ Len(reply.val) = Written(reply.val)
            /\ Len(reply.val) = ClaimedLength(ac, content)
            /\ reply.val[Len(reply.val)] # NUL

\* The same for the colors whose background is nil or has bytes, where it
\* holds; and the buffer is never shorter than what is written into it.
C40_HoldsUnlessEmptyBackground ==
    (Returns("Colorize") /\ call.in.content # <<>>) =>
        LET ac      == call.in.ac
            content == call.in.content
        IN  /\ Len(reply.val) = totalBufferLength(ac, content)
            /\ Written(reply.val) = ClaimedLength(ac, content)
            /\ Written(reply.val) <= Len(reply.val)
            /\ (ac.Background.nil \/ Len(ac.Background.b) > 0) =>
                   /\ Len(reply.val) = Written(reply.val)
                   /\ reply.val[Len(reply.val)] # NUL

\* Colorize returned a buffer one byte longer than what it wrote, for a
\* color with two settings and a background that is empty and not nil.
C40_OneByteTooLong ==
    /\ Returns("Colorize")
    /\ call.in.ac.Settings = <<Bold, Italic>>
    /\ ~call.in.ac.Background.nil /\ call.in.ac.Background.b = <<>>
    /\ Len(reply.val) = Written(reply.val) + 1

====
